---- MODULE Spec2Model ----
(***************************************************************************)
(* A model of claude-agent-desktop: the OAuth credential store and its     *)
(* IPC handlers (src/main/lib/updater.ts lines 320-541, which hold the     *)
(* text of lib/oauth, and src/main/handlers/oauth-handlers.ts), and the    *)
(* chat page (src/unnamed/part_002) talking to the session controller.     *)
(*                                                                         *)
(* Every async function is cut at its awaits: one action per stretch of    *)
(* code that runs without yielding to the event loop.                      *)
(***************************************************************************)
EXTENDS Integers, Sequences, FiniteSets, TLC

(***************************************************************************)
(* Bounds of the model.                                                    *)
(***************************************************************************)
\* concurrent callers of getValidAccessToken
NumCallers == 2
\* the clock runs from 0 to MaxNow, in minutes
MaxNow == 3
\* token responses the token endpoint answers with success
MaxIssued == 2
\* login flows started (PKCE verifiers generated)
MaxLogins == 2
\* send requests that pass the guard of handleSendMessage
MaxTurns == 2
\* content-delta events one remote call produces
MaxDeltas == 1
\* files the user selects
MaxFiles == 1

\* files in one selection, and files selected in a run that selects files
\* of any size
MaxSelection == 2
MaxGateFiles == 3

\* the size limit of an attachment; sizes are counted in halves of it
MAX_ATTACHMENT_BYTES == 2
\* records the conversation store holds
MaxRecords == 2
\* distinct message lists (and titles) handed to the conversation store
MaxPayload == 2
\* the clock of the chat page runs from 0 to MaxClk, in seconds
MaxClk == 5
\* calls of checkForUpdates() and of downloadUpdate() that reach the library
MaxChecks == 2
MaxDownloads == 2
\* windows the application opens, one after the other
MaxWindows == 2
\* the clock of the update controller runs from 0 to MaxUclk, in seconds
MaxUclk == 5

(***************************************************************************)
(* Program constants.                                                      *)
(***************************************************************************)
\* isTokenExpired: const fiveMinutes = 5 * 60 * 1000, here in minutes
fiveMinutes == 5

\* the auto-save effect: setTimeout(..., 2000), here in seconds
saveDelay == 2

\* expires_in of a token response, in minutes: one inside the look-ahead
\* window, one on its edge, one beyond it
ExpiresIn == {4, 5, 7}

Callers == 1..NumCallers

\* config.oauthTokens absent (getOAuthTokens returns null)
NoTokens == [access |-> 0, refresh |-> 0, expires |-> 0]

\* The token pair of the k-th successful token response, received at time t
\* with expires_in e: expires = Date.now() + json.expires_in * 1000
TokenResponse(k, t, e) == [access |-> k, refresh |-> k, expires |-> t + e]

VARIABLES
  \* ---- OAuth: main process
  oauthTokens,          \* config.oauthTokens as persisted
  currentPKCEVerifier,  \* 0 is null, k > 0 the verifier of the k-th flow
  now,                  \* Date.now()
  issued,               \* token responses issued so far by the endpoint
  logins,               \* login flows started so far
  gvat,                 \* getValidAccessToken calls, one per caller
  sl,                   \* the oauth:start-login call in progress
  cl                    \* the oauth:complete-login call in progress

VARIABLES
  \* ---- Session Controller: main process
  status,               \* "Idle", "Streaming" or "Cancelling"
  sessionId,            \* the resumable session id, 0 is null
  turn,                 \* the turn the controller serves, 0 before the first
  calls,                \* the remote runtime's streaming call of each turn
  nextSid,              \* session ids the remote runtime has assigned
  \* ---- main process -> renderer: push events and invoke replies, in order
  chan,
  \* ---- conversation store
  convs,                \* the persisted records, by id
  \* ---- Chat page: renderer
  isLoading,
  messages,
  currentConversationId,  \* 0 is null
  currentSessionId,       \* 0 is null
  pendingAttachments,
  attempts,             \* Date.now() of the last user message: its id
  files,                \* files selected so far
  fs,                   \* handleFilesSelected's processFiles in progress
  hs,                   \* handleSendMessage in progress
  hn,                   \* handleNewChat in progress
  hl,                   \* handleLoadConversation in progress
  \* ---- history of the run
  term,                 \* terminal events emitted, per turn
  uiTerm,               \* terminal events the page received, per turn
  flags                 \* per turn: what happened to it

VARIABLES
  \* ---- Chat page: the auto-save effect
  clk,                  \* the time on the page, in seconds
  saveTimer,            \* saveTimeoutRef with what its callback closes over
  writes                \* store writes of the effect since the message list
                        \* last changed

VARIABLES
  \* ---- Conversation Store: its files
  disk,                 \* the records as get and list read them, by id
  saving,               \* the save in progress: the copy being written
  run                   \* the updates of messages alone that came in a row

storeVars == <<disk, saving, run>>

VARIABLES
  \* ---- Config store and the config handlers: main process
  config,               \* the persisted config but for its oauthTokens
  env,                  \* the environment the application was started in
  swd,                  \* the config:set-workspace-dir call in progress
  cfgReply              \* how the last config or status call ended

cfgVars == <<config, env, swd, cfgReply>>

VARIABLES
  \* ---- history of the run: requests that were made and had no effect
  ignoredStop           \* "yes" once a chat.stopMessage reached a controller
                        \* that was not Streaming, "no" before; "off" in the
                        \* runs that keep no such record

obsVars == <<ignoredStop>>

VARIABLES
  \* ---- Chat page: the message under the attachment list
  attachmentError       \* 0 is null, k > 0 the message that names file k

attVars == <<attachmentError>>

VARIABLES
  \* ---- Update controller: main process
  currentStatus,        \* the UpdateStatus the renderer is told about
  mainWindow,           \* the window the updater notifies: id 0 is null
  listeners,            \* listeners registered for each autoUpdater event
  clearTimers,          \* the delayed clears that are scheduled
  uclk,                 \* the time in the main process, in seconds
  feed,                 \* how the update feed is set up
  autoUpdater,          \* the library: what is in flight, what it was asked
  updHist               \* what the listeners of the last event did

updVars == <<currentStatus, mainWindow, listeners, clearTimers, uclk, feed,
             autoUpdater, updHist>>

VARIABLES
  \* ---- Chat page: the previews of the attachments
  previewUrls,          \* per file: the preview made for it, how often its
                        \* URL was revoked, whether a message holds the URL
  mounted               \* the Chat component is mounted

prevVars == <<previewUrls, mounted>>

restVars == <<storeVars, cfgVars, obsVars, attVars, updVars, prevVars>>

\* what the handlers that set attachmentError leave alone
restButAtt == <<storeVars, cfgVars, obsVars, updVars>>

oauthVars == <<oauthTokens, currentPKCEVerifier, now, issued, logins, gvat, sl, cl>>

ctrlVars == <<status, sessionId, turn, calls, nextSid>>

uiVars == <<isLoading, messages, currentConversationId, currentSessionId,
            pendingAttachments, attempts, files, fs, hs, hn, hl>>

histVars == <<term, uiTerm, flags>>

saveVars == <<clk, saveTimer, writes>>

chatVars == <<ctrlVars, chan, convs, uiVars, histVars, saveVars>>

vars == <<oauthVars, chatVars, restVars>>

(***************************************************************************)
(* lib/oauth                                                               *)
(***************************************************************************)

\* a look-ahead window that takes in its edge
isTokenExpiredInclusive(tokens) == tokens.expires <= now + fiveMinutes

\* isTokenExpired(tokens): tokens.expires < Date.now() + fiveMinutes
isTokenExpired(tokens) == tokens.expires < now + fiveMinutes

\* getOAuthTokens(): config.oauthTokens || null
getOAuthTokens == oauthTokens

\* results of getValidAccessToken: 0 is null, k > 0 the access token k
\* threw: the call ended in an exception instead of a result
GvatIdle ==
  [pc |-> "idle", refresh |-> 0, result |-> 0, refreshed |-> FALSE, threw |-> FALSE]

\* getValidAccessToken, up to its first await or its return
GvatStart(c) ==
  /\ gvat[c].pc = "idle"
  /\ LET tokens == getOAuthTokens IN
       IF tokens = NoTokens
         THEN gvat' = [gvat EXCEPT ![c] = [GvatIdle EXCEPT !.result = 0]]
         ELSE IF isTokenExpired(tokens)
           THEN gvat' = [gvat EXCEPT ![c] =
                           [pc |-> "refreshing", refresh |-> tokens.refresh,
                            result |-> 0, refreshed |-> FALSE, threw |-> FALSE]]
           ELSE gvat' = [gvat EXCEPT ![c] = [GvatIdle EXCEPT !.result = tokens.access]]
  /\ UNCHANGED <<oauthTokens, currentPKCEVerifier, now, issued, logins, sl, cl>>
  /\ UNCHANGED <<chatVars, restVars>>

\* a saveOAuthTokens that stores the access token of the response only
saveOAuthTokensAccessOnly(tokens) ==
  oauthTokens' = [oauthTokens EXCEPT !.access = tokens.access]

\* saveOAuthTokens: config.oauthTokens = tokens; saveConfig(config)
saveOAuthTokens(tokens) ==
  oauthTokens' = tokens

\* refreshAccessToken answered with response.ok: saveOAuthTokens(newTokens)
\* and return newTokens.accessToken. There is no try around the save: when
\* saveConfig throws, the exception leaves getValidAccessToken.
GvatRefreshOk(c) ==
  /\ gvat[c].pc = "refreshing"
  /\ issued < MaxIssued
  /\ \E e \in ExpiresIn, saved \in BOOLEAN :
       LET newTokens == TokenResponse(issued + 1, now, e) IN
         IF saved
           THEN /\ saveOAuthTokens(newTokens)
                /\ gvat' = [gvat EXCEPT ![c] =
                              [pc |-> "idle", refresh |-> 0,
                               result |-> newTokens.access,
                               refreshed |-> TRUE, threw |-> FALSE]]
           ELSE /\ UNCHANGED oauthTokens
                /\ gvat' = [gvat EXCEPT ![c] =
                              [pc |-> "idle", refresh |-> 0, result |-> 0,
                               refreshed |-> TRUE, threw |-> TRUE]]
  /\ issued' = issued + 1
  /\ UNCHANGED <<currentPKCEVerifier, now, logins, sl, cl>>
  /\ UNCHANGED <<chatVars, restVars>>

\* a getValidAccessToken that drops the stored pair when the refresh fails
GvatRefreshFailedClears(c) ==
  /\ gvat[c].pc = "refreshing"
  /\ gvat' = [gvat EXCEPT ![c] =
                [pc |-> "idle", refresh |-> 0, result |-> 0, refreshed |-> TRUE,
                 threw |-> FALSE]]
  /\ oauthTokens' = NoTokens
  /\ UNCHANGED <<currentPKCEVerifier, now, issued, logins, sl, cl>>
  /\ UNCHANGED <<chatVars, restVars>>

\* refreshAccessToken returns null (response not ok, or fetch threw):
\* getValidAccessToken returns null
GvatRefreshFailed(c) ==
  /\ gvat[c].pc = "refreshing"
  /\ gvat' = [gvat EXCEPT ![c] =
                [pc |-> "idle", refresh |-> 0, result |-> 0, refreshed |-> TRUE,
                 threw |-> FALSE]]
  /\ UNCHANGED <<oauthTokens, currentPKCEVerifier, now, issued, logins, sl, cl>>
  /\ UNCHANGED <<chatVars, restVars>>

\* the clock advances
Tick ==
  /\ now < MaxNow
  /\ now' = now + 1
  /\ UNCHANGED <<oauthTokens, currentPKCEVerifier, issued, logins, gvat, sl, cl>>
  /\ UNCHANGED <<chatVars, restVars>>

InitOAuth ==
  /\ oauthTokens = NoTokens
  /\ currentPKCEVerifier = 0
  /\ now = 0
  /\ issued = 0
  /\ logins = 0
  /\ gvat = [c \in Callers |-> GvatIdle]
  /\ sl = "idle"
  /\ cl = [pc |-> "idle", verifier |-> 0, createKey |-> FALSE, access |-> 0,
           result |-> "none"]

(***************************************************************************)
(* handlers/oauth-handlers.ts                                              *)
(***************************************************************************)

ClIdle(result) ==
  [pc |-> "idle", verifier |-> 0, createKey |-> FALSE, access |-> 0, result |-> result]

\* oauth:start-login, up to await generatePKCEChallenge()
SlStart ==
  /\ sl = "idle"
  /\ logins < MaxLogins
  /\ sl' = "generating"
  /\ UNCHANGED <<oauthTokens, currentPKCEVerifier, now, issued, logins, gvat, cl>>
  /\ UNCHANGED <<chatVars, restVars>>

\* oauth:start-login: currentPKCEVerifier = pkce.verifier, up to
\* await shell.openExternal(authUrl)
SlGenerated ==
  /\ sl = "generating"
  /\ currentPKCEVerifier' = logins + 1
  /\ logins' = logins + 1
  /\ sl' = "opening"
  /\ UNCHANGED <<oauthTokens, now, issued, gvat, cl>>
  /\ UNCHANGED <<chatVars, restVars>>

\* oauth:start-login returns: openExternal resolved (success: true) or threw
\* (success: false); neither branch touches the verifier
SlOpened ==
  /\ sl = "opening"
  /\ sl' = "idle"
  /\ UNCHANGED <<oauthTokens, currentPKCEVerifier, now, issued, logins, gvat, cl>>
  /\ UNCHANGED <<chatVars, restVars>>

\* a complete-login that does not look at the verifier
ClStartUnguarded(createKey) ==
  /\ cl.pc = "idle"
  /\ cl' = [pc |-> "exchanging", verifier |-> currentPKCEVerifier,
            createKey |-> createKey, access |-> 0, result |-> "none"]
  /\ UNCHANGED <<oauthTokens, currentPKCEVerifier, now, issued, logins, gvat, sl>>
  /\ UNCHANGED <<chatVars, restVars>>

\* oauth:complete-login, up to await exchangeCodeForTokens(code, currentPKCEVerifier)
ClStart(createKey) ==
  /\ cl.pc = "idle"
  /\ IF currentPKCEVerifier = 0
       THEN cl' = ClIdle("no-flow")
       ELSE cl' = [pc |-> "exchanging", verifier |-> currentPKCEVerifier,
                   createKey |-> createKey, access |-> 0, result |-> "none"]
  /\ UNCHANGED <<oauthTokens, currentPKCEVerifier, now, issued, logins, gvat, sl>>
  /\ UNCHANGED <<chatVars, restVars>>

\* exchangeCodeForTokens returned null: return { success: false, ... }
ClExchangeFailed ==
  /\ cl.pc = "exchanging"
  /\ cl' = ClIdle("exchange-failed")
  /\ UNCHANGED <<oauthTokens, currentPKCEVerifier, now, issued, logins, gvat, sl>>
  /\ UNCHANGED <<chatVars, restVars>>

\* exchangeCodeForTokens returned tokens; without createKey the handler goes
\* on to saveOAuthTokens(tokens), which returns or throws into the catch
ClExchangeOk ==
  /\ cl.pc = "exchanging"
  /\ issued < MaxIssued
  /\ issued' = issued + 1
  /\ \E e \in ExpiresIn, saved \in BOOLEAN :
       LET tokens == TokenResponse(issued + 1, now, e) IN
         IF cl.createKey
           THEN /\ cl' = [cl EXCEPT !.pc = "creatingKey", !.access = tokens.access]
                /\ UNCHANGED <<oauthTokens, currentPKCEVerifier>>
           ELSE IF saved
             THEN /\ saveOAuthTokens(tokens)
                  /\ currentPKCEVerifier' = 0
                  /\ cl' = ClIdle("oauth")
             ELSE /\ currentPKCEVerifier' = 0
                  /\ cl' = ClIdle("exception")
                  /\ UNCHANGED oauthTokens
  /\ UNCHANGED <<now, logins, gvat, sl>>
  /\ UNCHANGED <<chatVars, restVars>>

\* createApiKey returned null: return { success: false, ... }
ClCreateKeyFailed ==
  /\ cl.pc = "creatingKey"
  /\ cl' = ClIdle("key-failed")
  /\ UNCHANGED <<oauthTokens, currentPKCEVerifier, now, issued, logins, gvat, sl>>
  /\ UNCHANGED <<chatVars, restVars>>

\* createApiKey returned the key: currentPKCEVerifier = null, mode 'api-key'
ClCreateKeyOk ==
  /\ cl.pc = "creatingKey"
  /\ currentPKCEVerifier' = 0
  /\ cl' = ClIdle("api-key")
  /\ UNCHANGED <<oauthTokens, now, issued, logins, gvat, sl>>
  /\ UNCHANGED <<chatVars, restVars>>

\* oauth:cancel
OAuthCancel ==
  /\ currentPKCEVerifier' = 0
  /\ UNCHANGED <<oauthTokens, now, issued, logins, gvat, sl, cl>>
  /\ UNCHANGED <<chatVars, restVars>>

\* oauth:logout: clearOAuthTokens()
OAuthLogout ==
  /\ oauthTokens' = NoTokens
  /\ UNCHANGED <<currentPKCEVerifier, now, issued, logins, gvat, sl, cl>>
  /\ UNCHANGED <<chatVars, restVars>>

(***************************************************************************)
(* Session Controller (main process): chat.sendMessage, chat.stopMessage,  *)
(* chat.resetSession and the forwarding of the remote runtime's events.    *)
(***************************************************************************)

Turns == 1..MaxTurns

\* a message from the main process to the renderer: a push event of turn t
\* ("session" carries the session id in v) or the reply to an invoke
\* (v = 1 for success, 0 for failure; "getReply" carries the record's id)
Msg(k, t, v) == [k |-> k, t |-> t, v |-> v]

NoCall == [st |-> "none", resume |-> 0, n |-> 0]

\* a controller that listens to every call ever opened
ForwardsAny(t) == calls[t].st # "none"

\* the controller listens to the call of turn t
Forwards(t) == t = turn /\ status # "Idle"

\* chan, term and flags after the one terminal event of turn t is emitted
EmitTerminal(base, t, k, how) ==
  /\ chan' = base \o <<Msg(k, t, 0)>>
  /\ term' = [term EXCEPT ![t] = IF @ < 2 THEN @ + 1 ELSE @]
  /\ flags' = [flags EXCEPT ![t].how = how]

\* a chat.sendMessage that opens the remote call before it looks at the
\* state and at the credential
sendMessageOpensFirst(base, t, cred) ==
  /\ calls' = [calls EXCEPT ![t] = [st |-> "starting", resume |-> sessionId, n |-> 0]]
  /\ IF status = "Idle" /\ cred
       THEN /\ status' = "Streaming"
            /\ turn' = t
            /\ chan' = Append(base, Msg("sendReply", t, 1))
            /\ UNCHANGED <<sessionId, nextSid, term, flags>>
       ELSE /\ chan' = Append(base, Msg("sendReply", t, 0))
            /\ UNCHANGED <<status, sessionId, turn, nextSid, term, flags>>

\* chat.sendMessage: rejected unless Idle and a credential is resolvable
sendMessage(base, t, cred) ==
  IF status = "Idle" /\ cred
    THEN /\ status' = "Streaming"
         /\ turn' = t
         /\ calls' = [calls EXCEPT ![t] = [st |-> "starting", resume |-> sessionId, n |-> 0]]
         /\ chan' = Append(base, Msg("sendReply", t, 1))
         /\ UNCHANGED <<sessionId, nextSid, term, flags>>
    ELSE /\ chan' = Append(base, Msg("sendReply", t, 0))
         /\ UNCHANGED <<ctrlVars, term, flags>>

\* a chat.stopMessage that cancels whatever turn the controller served last
stopMessageAnyState ==
  /\ IF turn # 0
       THEN /\ status' = "Cancelling"
            /\ calls' = [calls EXCEPT ![turn].st = "aborting"]
            /\ flags' = [flags EXCEPT ![turn].stopped = TRUE]
            /\ UNCHANGED <<sessionId, turn, nextSid, term, chan>>
       ELSE UNCHANGED <<ctrlVars, term, flags, chan>>
  /\ ignoredStop' = IF ignoredStop = "no" /\ status # "Streaming"
                      THEN "yes" ELSE ignoredStop

\* chat.stopMessage: a no-op unless Streaming
stopMessage ==
  /\ IF status = "Streaming"
       THEN /\ status' = "Cancelling"
            /\ calls' = [calls EXCEPT ![turn].st = "aborting"]
            /\ flags' = [flags EXCEPT ![turn].stopped = TRUE]
            /\ UNCHANGED <<sessionId, turn, nextSid, term, chan>>
       ELSE UNCHANGED <<ctrlVars, term, flags, chan>>
  /\ ignoredStop' = IF ignoredStop = "no" /\ status # "Streaming"
                      THEN "yes" ELSE ignoredStop

\* chat.resetSession(resumeSessionId): from any state to Idle; a live turn is
\* torn down and gets its terminal event
resetSession(base, resume, reply) ==
  /\ status' = "Idle"
  /\ sessionId' = resume
  /\ IF status # "Idle"
       THEN /\ calls' = [calls EXCEPT ![turn].st = "aborting"]
            /\ term' = [term EXCEPT ![turn] = IF @ < 2 THEN @ + 1 ELSE @]
            /\ flags' = [flags EXCEPT ![turn].how = "reset"]
            /\ chan' = base \o <<Msg("complete", turn, 0), reply>>
       ELSE /\ chan' = Append(base, reply)
            /\ UNCHANGED <<calls, term, flags>>
  /\ UNCHANGED <<turn, nextSid>>

\* the remote call of turn t opens: the runtime assigns a session id, takes
\* up the session it was asked to resume, or rejects the resume
RemoteInit(t) ==
  /\ calls[t].st = "starting"
  /\ \/ \* a fresh session
        /\ calls[t].resume = 0
        /\ nextSid' = nextSid + 1
        /\ calls' = [calls EXCEPT ![t].st = "running"]
        /\ IF Forwards(t)
             THEN /\ sessionId' = nextSid + 1
                  /\ chan' = Append(chan, Msg("session", t, nextSid + 1))
                  /\ flags' = [flags EXCEPT ![t].sid = nextSid + 1]
             ELSE UNCHANGED <<sessionId, chan, flags>>
     \/ \* the resume is accepted
        /\ calls[t].resume # 0
        /\ calls' = [calls EXCEPT ![t].st = "running", ![t].resume = 0]
        /\ IF Forwards(t)
             THEN /\ sessionId' = calls[t].resume
                  /\ chan' = Append(chan, Msg("session", t, calls[t].resume))
                  /\ flags' = [flags EXCEPT ![t].sid = calls[t].resume]
             ELSE UNCHANGED <<sessionId, chan, flags>>
        /\ UNCHANGED nextSid
     \/ \* the resume is rejected: fall back to a fresh session
        /\ calls[t].resume # 0
        /\ IF Forwards(t)
             THEN /\ calls' = [calls EXCEPT ![t].resume = 0]
                  /\ flags' = [flags EXCEPT ![t].stale = calls[t].resume]
             ELSE /\ calls' = [calls EXCEPT ![t].st = "closed", ![t].resume = 0]
                  /\ UNCHANGED flags
        /\ UNCHANGED <<sessionId, nextSid, chan>>
  /\ UNCHANGED <<status, turn, term, uiTerm, convs, uiVars>>
  /\ UNCHANGED saveVars
  /\ UNCHANGED <<oauthVars, restVars>>

\* the remote call of turn t produces a content delta; the controller
\* forwards it, or drops it when it no longer listens to that call
RemoteDelta(t) ==
  /\ calls[t].st \in {"running", "aborting"}
  /\ IF Forwards(t)
       THEN /\ calls[t].n < MaxDeltas
            /\ calls' = [calls EXCEPT ![t].n = @ + 1]
            /\ chan' = Append(chan, Msg("delta", t, 0))
       ELSE UNCHANGED <<calls, chan>>
  /\ UNCHANGED <<status, sessionId, turn, nextSid, histVars, convs, uiVars>>
  /\ UNCHANGED saveVars
  /\ UNCHANGED <<oauthVars, restVars>>

\* the remote call of turn t ends by itself: result (ok) or failure
RemoteEnd(t) ==
  /\ calls[t].st \in {"starting", "running"}
  /\ calls' = [calls EXCEPT ![t].st = "closed"]
  /\ \E ok \in BOOLEAN :
       IF Forwards(t)
         THEN /\ status' = "Idle"
              /\ EmitTerminal(chan, t, IF ok THEN "complete" ELSE "error",
                              IF ok THEN "complete" ELSE "error")
         ELSE UNCHANGED <<status, chan, term, flags>>
  /\ UNCHANGED <<sessionId, turn, nextSid, uiTerm, convs, uiVars>>
  /\ UNCHANGED saveVars
  /\ UNCHANGED <<oauthVars, restVars>>

\* a controller that turns every acknowledgment into a terminal event
RemoteAckUnguarded(t) ==
  /\ calls[t].st = "aborting"
  /\ calls' = [calls EXCEPT ![t].st = "closed"]
  /\ status' = "Idle"
  /\ chan' = chan \o <<Msg("complete", t, 0)>>
  /\ term' = [term EXCEPT ![t] = IF @ < 2 THEN @ + 1 ELSE @]
  /\ flags' = [flags EXCEPT ![t].how = "ack"]
  /\ UNCHANGED <<sessionId, turn, nextSid, uiTerm, convs, uiVars>>
  /\ UNCHANGED saveVars
  /\ UNCHANGED <<oauthVars, restVars>>

\* the remote call of turn t acknowledges the stop signal; an
\* acknowledgment the controller no longer waits for is dropped
RemoteAck(t) ==
  /\ calls[t].st = "aborting"
  /\ IF Forwards(t)
       THEN /\ calls' = [calls EXCEPT ![t].st = "closed"]
            /\ status' = "Idle"
            /\ EmitTerminal(chan, t, "complete", "ack")
       ELSE UNCHANGED <<calls, status, chan, term, flags>>
  /\ UNCHANGED <<sessionId, turn, nextSid, uiTerm, convs, uiVars>>
  /\ UNCHANGED saveVars
  /\ UNCHANGED <<oauthVars, restVars>>

\* a controller that waits for the acknowledgment without a bound
CancelTimeoutNever ==
  /\ FALSE
  /\ UNCHANGED vars

\* the bounded wait for the acknowledgment runs out: forced back to Idle
CancelTimeout ==
  /\ status = "Cancelling"
  /\ status' = "Idle"
  /\ EmitTerminal(chan, turn, "complete", "timeout")
  /\ UNCHANGED <<sessionId, turn, calls, nextSid, uiTerm, convs, uiVars>>
  /\ UNCHANGED saveVars
  /\ UNCHANGED <<oauthVars, restVars>>

(***************************************************************************)
(* Conversation store (main process)                                       *)
(***************************************************************************)

\* conversation.update(id, undefined, messages, sessionId ?? undefined):
\* the fields not supplied keep their stored values; the write may fail
update(id, msgs, sid, ok) ==
  IF ok /\ id \in 1..Len(convs)
    THEN [convs EXCEPT ![id].msgs = msgs,
                       ![id].sessionId = IF sid # 0 THEN sid ELSE @]
    ELSE convs

\* conversation.create(messages, sessionId ?? undefined): a new record under
\* a generated id; the write may fail
create(msgs, sid, ok) ==
  IF ok THEN Append(convs, [msgs |-> msgs, sessionId |-> sid]) ELSE convs

(***************************************************************************)
(* Conversation store (main process): its records on disk. A message list  *)
(* or a title is one of 1..MaxPayload; in a call 0 is a field not supplied, *)
(* in a record a sessionId of 0 is null.                                    *)
(***************************************************************************)

Payloads == 1..MaxPayload

NoRecord == [title |-> 0, msgs |-> 0, sessionId |-> 0, whole |-> FALSE]

NoSave == [id |-> 0, kind |-> "none", title |-> 0, msgs |-> 0, sid |-> 0,
           rec |-> NoRecord, done |-> FALSE, last |-> "none"]

NoRun == [id |-> 0, n |-> 0, title |-> 0, msgs |-> 0]

\* an update that writes the fields of the call as they came
overwritten(rec, title, msgs, sid) ==
  [title |-> title, msgs |-> msgs, sessionId |-> sid, whole |-> TRUE]

\* update(id, title?, messages?, sessionId?): the record with the supplied
\* fields replaced
merged(rec, title, msgs, sid) ==
  [title |-> IF title = 0 THEN rec.title ELSE title,
   msgs |-> IF msgs = 0 THEN rec.msgs ELSE msgs,
   sessionId |-> IF sid = 0 THEN rec.sessionId ELSE sid,
   whole |-> TRUE]

\* get(id); list() returns the same records
get(id) == IF id \in 1..Len(disk) THEN disk[id] ELSE NoRecord

\* create(messages, sessionId?): a save of a new record begins
StoreCreate ==
  /\ saving.id = 0
  /\ Len(disk) < MaxRecords
  /\ \E msgs \in Payloads, sid \in 0..1 :
       saving' = [id |-> Len(disk) + 1, kind |-> "create", title |-> 0,
                  msgs |-> msgs, sid |-> sid,
                  rec |-> [title |-> 1, msgs |-> msgs, sessionId |-> sid, whole |-> TRUE],
                  done |-> FALSE, last |-> "none"]
  /\ UNCHANGED <<disk, run>>
  /\ UNCHANGED <<oauthVars, chatVars, cfgVars, obsVars, attVars, updVars, prevVars>>

\* an update that writes into the record's own file
StoreUpdateInPlace(id, title, msgs, sid) ==
  /\ saving.id = 0
  /\ id \in 1..Len(disk)
  /\ saving' = [id |-> id, kind |-> "update", title |-> title, msgs |-> msgs,
                sid |-> sid, rec |-> merged(disk[id], title, msgs, sid),
                done |-> FALSE, last |-> "none"]
  /\ disk' = [disk EXCEPT ![id].whole = FALSE]
  /\ UNCHANGED run
  /\ UNCHANGED <<oauthVars, chatVars, cfgVars, obsVars, attVars, updVars, prevVars>>

\* update(id, title?, messages?, sessionId?): a save of the merged record
\* begins, into a copy beside the record's file
StoreUpdate(id, title, msgs, sid) ==
  /\ saving.id = 0
  /\ id \in 1..Len(disk)
  /\ saving' = [id |-> id, kind |-> "update", title |-> title, msgs |-> msgs,
                sid |-> sid, rec |-> merged(disk[id], title, msgs, sid),
                done |-> FALSE, last |-> "none"]
  /\ UNCHANGED <<disk, run>>
  /\ UNCHANGED <<oauthVars, chatVars, cfgVars, obsVars, attVars, updVars, prevVars>>

\* the copy is written out in full
StoreWritten ==
  /\ saving.id # 0
  /\ ~saving.done
  /\ saving' = [saving EXCEPT !.done = TRUE]
  /\ UNCHANGED <<disk, run>>
  /\ UNCHANGED <<oauthVars, chatVars, cfgVars, obsVars, attVars, updVars, prevVars>>

\* the copy replaces the record's file in one step
StoreReplaced ==
  /\ saving.id # 0
  /\ saving.done
  /\ disk' = IF saving.id > Len(disk)
               THEN Append(disk, saving.rec)
               ELSE [disk EXCEPT ![saving.id] = saving.rec]
  /\ saving' = [NoSave EXCEPT !.last = "replaced"]
  /\ run' = IF saving.kind = "update" /\ saving.msgs # 0
                 /\ saving.title = 0 /\ saving.sid = 0
              THEN IF run.id = saving.id
                     THEN [run EXCEPT !.n = IF @ < 2 THEN @ + 1 ELSE @,
                                      !.msgs = saving.msgs]
                     ELSE [id |-> saving.id, n |-> 1, title |-> disk[saving.id].title,
                           msgs |-> saving.msgs]
              ELSE NoRun
  /\ UNCHANGED <<oauthVars, chatVars, cfgVars, obsVars, attVars, updVars, prevVars>>

\* the save is interrupted (the process stops, the write fails): the copy is
\* dropped
StoreInterrupted ==
  /\ saving.id # 0
  /\ saving' = [NoSave EXCEPT !.last = "interrupted"]
  /\ run' = NoRun
  /\ UNCHANGED disk
  /\ UNCHANGED <<oauthVars, chatVars, cfgVars, obsVars, attVars, updVars, prevVars>>

InitStore ==
  /\ disk = <<>>
  /\ saving = NoSave
  /\ run = NoRun

NextStore ==
  \/ StoreCreate
  \/ \E id \in 1..MaxRecords, title \in 0..MaxPayload, msgs \in 0..MaxPayload,
        sid \in 0..1 : StoreUpdate(id, title, msgs, sid)
  \/ StoreWritten
  \/ StoreReplaced
  \/ StoreInterrupted

(***************************************************************************)
(* Config store (lib/config) and the config handlers                       *)
(***************************************************************************)

\* locally stored keys and URLs are 1..MaxKeys, directories 1..MaxDirs;
\* 0 is null, and as an input a string that is empty once trimmed
MaxKeys == 2
MaxDirs == 2

\* the value of an environment variable that is set: none of the local ones
EnvValue == MaxKeys + 1

\* how a call into lib/config that reads or writes the config file, or
\* creates the workspace directory, ends: it succeeds, it throws, or it
\* fails without telling its caller
LibOutcomes == {"ok", "throws", "silent"}

NoStatus == [configured |-> FALSE, source |-> "none", value |-> 0]

NoEnv == [started |-> FALSE, apiKey |-> 0, baseUrl |-> 0]

\* a resolver that consults the persisted layer first
resolveStoredFirst(envValue, stored) ==
  IF stored # 0
    THEN [configured |-> TRUE, source |-> "local", value |-> stored]
    ELSE IF envValue # 0
      THEN [configured |-> TRUE, source |-> "env", value |-> envValue]
      ELSE NoStatus

\* the layered resolver: the environment first, the persisted value as the
\* fallback; source "none" is the null source
resolve(envValue, stored) ==
  IF envValue # 0
    THEN [configured |-> TRUE, source |-> "env", value |-> envValue]
    ELSE IF stored # 0
      THEN [configured |-> TRUE, source |-> "local", value |-> stored]
      ELSE NoStatus

getApiKeyStatus(c) == resolve(env.apiKey, c.apiKey)

getAnthropicBaseUrlStatus(c) == resolve(env.baseUrl, c.anthropicBaseUrl)

\* a call that returned a result; arg and was record, for config:set-api-key,
\* the string passed and the key stored when the call was made. flag is the result's success field, "none"
\* when it has none; error tells whether it carries a message; failed tells
\* whether something failed inside the call.
Result(h, flag, error, failed, st, value) ==
  [h |-> h, out |-> "result", flag |-> flag, error |-> error, failed |-> failed,
   status |-> st, value |-> value, arg |-> <<>>, was |-> 0]

\* a call whose exception left the handler: the invoke rejects
Threw(h) ==
  [h |-> h, out |-> "threw", flag |-> "none", error |-> FALSE, failed |-> TRUE,
   status |-> NoStatus, value |-> 0, arg |-> <<>>, was |-> 0]

NoReply == Result("none", "none", FALSE, FALSE, NoStatus, 0)

\* the application starts: its environment is fixed from here on
Launch(k, u) ==
  /\ ~env.started
  /\ env' = [started |-> TRUE, apiKey |-> k, baseUrl |-> u]
  /\ UNCHANGED <<config, swd, cfgReply>>
  /\ UNCHANGED <<oauthVars, chatVars, storeVars, obsVars, attVars, updVars, prevVars>>

\* config:get-workspace-dir
GetWorkspaceDir ==
  /\ env.started
  /\ cfgReply' = Result("get-workspace-dir", "none", FALSE, FALSE, NoStatus,
                        config.workspaceDir)
  /\ UNCHANGED <<config, env, swd>>
  /\ UNCHANGED <<oauthVars, chatVars, storeVars, obsVars, attVars, updVars, prevVars>>

\* a string as typed: its characters are key characters 1..MaxKeys and
\* spaces; <<>> stands for null, undefined and the empty string
Space == MaxKeys + 2

RECURSIVE trimStart(_)
trimStart(str) ==
  IF str # <<>> /\ Head(str) = Space THEN trimStart(Tail(str)) ELSE str

RECURSIVE trimEnd(_)
trimEnd(str) ==
  IF str # <<>> /\ str[Len(str)] = Space
    THEN trimEnd(SubSeq(str, 1, Len(str) - 1))
    ELSE str

\* String.prototype.trim
trim(str) == trimEnd(trimStart(str))

\* the strings passed as the workspace path: a directory 1..MaxDirs, with
\* whitespace before or after it, or nothing but whitespace
DirInputs ==
  {<<>>, <<Space>>, <<Space, Space>>}
    \cup {<<d>> : d \in 1..MaxDirs}
    \cup {<<Space, d>> : d \in 1..MaxDirs}
    \cup {<<d, Space>> : d \in 1..MaxDirs}

\* a handler that takes the path as typed
pathAsTyped(workspaceDir) == workspaceDir

\* const trimmedPath = workspaceDir.trim()
trimmedPath(workspaceDir) == trim(workspaceDir)

\* a path that is not empty, named by its directory
PathName(path) == IF path = <<>> THEN 0 ELSE path[1]

\* no config:set-workspace-dir call in progress; arg and was record the
\* string passed and the directory stored when the call was made
NoSwd == [pc |-> "idle", arg |-> <<>>, was |-> 0]

\* config:set-workspace-dir up to await ensureWorkspaceDir(): a path that is
\* empty once trimmed is refused; otherwise loadConfig,
\* config.workspaceDir = trimmedPath, saveConfig(config), outside any try
SetWorkspaceDir(workspaceDir, lib) ==
  /\ env.started
  /\ swd.pc = "idle"
  /\ IF trimmedPath(workspaceDir) = <<>>
       THEN /\ cfgReply' = [Result("set-workspace-dir", "false", TRUE, FALSE,
                                   NoStatus, 0)
                             EXCEPT !.arg = workspaceDir,
                                    !.was = config.workspaceDir]
            /\ UNCHANGED <<config, swd>>
       ELSE IF lib = "throws"
         THEN /\ cfgReply' = [Threw("set-workspace-dir")
                               EXCEPT !.arg = workspaceDir,
                                      !.was = config.workspaceDir]
              /\ UNCHANGED <<config, swd>>
         ELSE /\ config' = IF lib = "ok"
                             THEN [config EXCEPT !.workspaceDir =
                                     PathName(trimmedPath(workspaceDir))]
                             ELSE config
              /\ swd' = [pc |-> IF lib = "ok" THEN "ensuring"
                                              ELSE "ensuring-unsaved",
                         arg |-> workspaceDir, was |-> config.workspaceDir]
              /\ UNCHANGED cfgReply
  /\ UNCHANGED env
  /\ UNCHANGED <<oauthVars, chatVars, storeVars, obsVars, attVars, updVars, prevVars>>

\* config:set-workspace-dir after await ensureWorkspaceDir():
\* return { success: true }, or the rejection of ensureWorkspaceDir
SetWorkspaceDirEnsured(lib) ==
  /\ swd.pc # "idle"
  /\ swd' = NoSwd
  /\ cfgReply' = [(IF lib = "throws"
                     THEN Threw("set-workspace-dir")
                     ELSE Result("set-workspace-dir", "true", FALSE,
                                 lib = "silent" \/ swd.pc = "ensuring-unsaved",
                                 NoStatus, 0))
                   EXCEPT !.arg = swd.arg, !.was = swd.was]
  /\ UNCHANGED <<config, env>>
  /\ UNCHANGED <<oauthVars, chatVars, storeVars, obsVars, attVars, updVars, prevVars>>

\* config:get-debug-mode
GetDebugMode ==
  /\ env.started
  /\ cfgReply' = Result("get-debug-mode", "none", FALSE, FALSE, NoStatus,
                        IF config.debugMode THEN 1 ELSE 0)
  /\ UNCHANGED <<config, env, swd>>
  /\ UNCHANGED <<oauthVars, chatVars, storeVars, obsVars, attVars, updVars, prevVars>>

\* config:set-debug-mode: loadConfig, config.debugMode = debugMode,
\* saveConfig(config), return { success: true }, outside any try
SetDebugMode(debugMode, lib) ==
  /\ env.started
  /\ IF lib = "throws"
       THEN /\ cfgReply' = Threw("set-debug-mode")
            /\ UNCHANGED config
       ELSE /\ config' = IF lib = "ok" THEN [config EXCEPT !.debugMode = debugMode]
                                        ELSE config
            /\ cfgReply' = Result("set-debug-mode", "true", FALSE, lib = "silent",
                                  NoStatus, 0)
  /\ UNCHANGED <<env, swd>>
  /\ UNCHANGED <<oauthVars, chatVars, storeVars, obsVars, attVars, updVars, prevVars>>

\* config:get-api-key-status
GetApiKeyStatus ==
  /\ env.started
  /\ cfgReply' = Result("get-api-key-status", "none", FALSE, FALSE,
                        getApiKeyStatus(config), 0)
  /\ UNCHANGED <<config, env, swd>>
  /\ UNCHANGED <<oauthVars, chatVars, storeVars, obsVars, attVars, updVars, prevVars>>

\* setApiKey of lib/config: the key is stored, or removed when it is null;
\* storing a key removes the OAuth pair, the two being exclusive in storage
setApiKey(apiKey) ==
  /\ config' = [config EXCEPT !.apiKey = apiKey]
  /\ oauthTokens' = IF apiKey # 0 THEN NoTokens ELSE oauthTokens

KeyInputs ==
  {<<>>, <<Space>>, <<Space, Space>>}
    \cup {<<k>> : k \in 1..MaxKeys}
    \cup {<<Space, k>> : k \in 1..MaxKeys}
    \cup {<<k, Space>> : k \in 1..MaxKeys}

\* a normalization that keeps the string as typed
normalizedAsTyped(input) ==
  IF input = <<>> THEN 0 ELSE input[1]

\* apiKey?.trim() || null: 0 is null, else the key, named by its character
normalized(input) ==
  IF trim(input) = <<>> THEN 0 ELSE trim(input)[1]

\* config:set-api-key: normalized = apiKey?.trim() || null;
\* setApiKey(normalized); return { success: true, status: getApiKeyStatus() }
SetApiKey(apiKey, lib) ==
  /\ env.started
  /\ IF lib = "throws"
       THEN /\ cfgReply' = Threw("set-api-key")
            /\ UNCHANGED <<config, oauthTokens>>
       ELSE /\ IF lib = "ok" THEN setApiKey(normalized(apiKey))
                              ELSE UNCHANGED <<config, oauthTokens>>
            /\ cfgReply' = [Result("set-api-key", "true", FALSE, lib = "silent",
                                   getApiKeyStatus(config'), 0)
                              EXCEPT !.arg = apiKey, !.was = config.apiKey]
  /\ UNCHANGED <<env, swd>>
  /\ UNCHANGED <<currentPKCEVerifier, now, issued, logins, gvat, sl, cl>>
  /\ UNCHANGED <<chatVars, storeVars, obsVars, attVars, updVars, prevVars>>

\* config:get-base-url-status
GetBaseUrlStatus ==
  /\ env.started
  /\ cfgReply' = Result("get-base-url-status", "none", FALSE, FALSE,
                        getAnthropicBaseUrlStatus(config), 0)
  /\ UNCHANGED <<config, env, swd>>
  /\ UNCHANGED <<oauthVars, chatVars, storeVars, obsVars, attVars, updVars, prevVars>>

\* config:set-base-url: normalized = baseUrl?.trim() || null;
\* setAnthropicBaseUrl(normalized);
\* return { success: true, status: getAnthropicBaseUrlStatus() }
SetBaseUrl(baseUrl, lib) ==
  /\ env.started
  /\ IF lib = "throws"
       THEN /\ cfgReply' = Threw("set-base-url")
            /\ UNCHANGED config
       ELSE /\ config' = IF lib = "ok"
                           THEN [config EXCEPT !.anthropicBaseUrl = baseUrl]
                           ELSE config
            /\ cfgReply' = Result("set-base-url", "true", FALSE, lib = "silent",
                                  getAnthropicBaseUrlStatus(config'), 0)
  /\ UNCHANGED <<env, swd>>
  /\ UNCHANGED <<oauthVars, chatVars, storeVars, obsVars, attVars, updVars, prevVars>>

\* oauth:get-status: tokens = getOAuthTokens(), which is loadConfig(), outside
\* any try; return { authenticated: !!tokens, expiresAt: tokens?.expires }
OAuthGetStatus(lib) ==
  /\ env.started
  /\ cfgReply' =
       IF lib = "throws"
         THEN Threw("oauth:get-status")
         ELSE LET tokens == IF lib = "ok" THEN getOAuthTokens ELSE NoTokens IN
                Result("oauth:get-status", "none", FALSE, lib = "silent",
                       NoStatus, tokens.expires)
  /\ UNCHANGED <<config, env, swd>>
  /\ UNCHANGED <<oauthVars, chatVars, storeVars, obsVars, attVars, updVars, prevVars>>

InitConfig ==
  /\ config = [workspaceDir |-> 1, debugMode |-> FALSE, apiKey |-> 0,
               anthropicBaseUrl |-> 0]
  /\ env = NoEnv
  /\ swd = NoSwd
  /\ cfgReply = NoReply

NextConfig ==
  \/ \E k \in {0, EnvValue}, u \in {0, EnvValue} : Launch(k, u)
  \/ GetWorkspaceDir
  \/ \E workspaceDir \in DirInputs, lib \in LibOutcomes :
       SetWorkspaceDir(workspaceDir, lib)
  \/ \E lib \in LibOutcomes : SetWorkspaceDirEnsured(lib)
  \/ GetDebugMode
  \/ \E debugMode \in BOOLEAN, lib \in LibOutcomes : SetDebugMode(debugMode, lib)
  \/ GetApiKeyStatus
  \/ \E apiKey \in KeyInputs, lib \in LibOutcomes : SetApiKey(apiKey, lib)
  \/ GetBaseUrlStatus
  \/ \E baseUrl \in 0..MaxKeys, lib \in LibOutcomes : SetBaseUrl(baseUrl, lib)
  \/ \E lib \in LibOutcomes : OAuthGetStatus(lib)

\* the stored credentials: the login flow, logout and config:set-api-key
NextCred ==
  \/ \E k \in {0, EnvValue} : Launch(k, 0)
  \/ SlStart
  \/ SlGenerated
  \/ SlOpened
  \/ \E createKey \in BOOLEAN : ClStart(createKey)
  \/ ClExchangeFailed
  \/ ClExchangeOk
  \/ ClCreateKeyFailed
  \/ ClCreateKeyOk
  \/ OAuthLogout
  \/ \E apiKey \in KeyInputs : SetApiKey(apiKey, "ok")

(***************************************************************************)
(* Update controller (main process): src/main/lib/updater.ts lines 1-318   *)
(* and the window handling of src/main/index.ts. autoUpdater is the        *)
(* electron-updater library: what it answers, and when, is its choice.     *)
(***************************************************************************)

\* let currentStatus: UpdateStatus = { ... }; error is 0 for null, k > 0 the
\* message of the k-th failure; updateInfo is 0 for null
NoUpdateStatus ==
  [checking |-> FALSE, updateAvailable |-> FALSE, downloading |-> FALSE,
   downloadProgress |-> 0, readyToInstall |-> FALSE, error |-> 0,
   updateInfo |-> 0, lastCheckComplete |-> FALSE]

\* the library at rest: no check and no download in flight; checks and
\* downloads count the calls of checkForUpdates() and downloadUpdate() it got
NoEngine ==
  [checking |-> FALSE, downloading |-> FALSE, downloaded |-> FALSE,
   quit |-> FALSE, checks |-> 0, downloads |-> 0]

\* what the listeners of the last event did: seq numbers the handler runs
\* that set a flag, completeBy is the run that last set lastCheckComplete
NoUpdHist ==
  [seq |-> 0, completeBy |-> 0, ev |-> "none", updates |-> 0, sent |-> 0,
   scheduled |-> 0]

\* the ways the feed can be set up: ELECTRON_RENDERER_URL defined without a
\* custom feed, neither custom feed nor packaged, and a feed in place
Feeds == {"dev", "unconfigured", "configured"}

\* notifyStatusChange(): one message if the window is there and not destroyed
notifyStatusChange ==
  IF mainWindow.id # 0 /\ ~mainWindow.destroyed THEN 1 ELSE 0

\* setTimeout(() => { currentStatus = {...currentStatus, lastCheckComplete:
\* false[, error: null]}; notifyStatusChange() }, delay) by run k of a
\* handler, once for each of the copies of the handler that ran
setTimeout(k, delay, error, copies) ==
  {[at |-> uclk + delay, error |-> error, by |-> k, copy |-> c] : c \in 1..copies}

\* initializeUpdater(window), its listeners: autoUpdater.on(...) adds one
\* more listener for each of the six events
initializeUpdater ==
  /\ listeners' = listeners + 1

\* the listeners of one event have run: each of them assigned currentStatus
\* and called notifyStatusChange()
Listened(ev, k, completes, timers) ==
  updHist' = [seq |-> k,
              completeBy |-> IF completes THEN k ELSE updHist.completeBy,
              ev |-> ev, updates |-> listeners,
              sent |-> listeners * notifyStatusChange, scheduled |-> timers]

\* a step of the updater that is not the delivery of an event
Called(k, completes) ==
  updHist' = [seq |-> k,
              completeBy |-> IF completes THEN k ELSE updHist.completeBy,
              ev |-> "none", updates |-> 0, sent |-> 0, scheduled |-> 0]

\* checkForUpdates(): the two early failures, the guard, the reset of the
\* flags and autoUpdater.checkForUpdates(), whose first statement emits
\* 'checking-for-update' to the listeners
checkForUpdates ==
  /\ ~autoUpdater.quit
  /\ autoUpdater.checks < MaxChecks
  /\ feed # "configured" => updHist.seq < MaxChecks
  /\ LET k == updHist.seq + 1 IN
       IF feed = "dev"
         THEN /\ currentStatus' = [currentStatus EXCEPT !.checking = FALSE,
                                     !.lastCheckComplete = TRUE, !.error = k]
              /\ clearTimers' = clearTimers \cup setTimeout(k, 3, TRUE, 1)
              /\ Called(k, TRUE)
              /\ UNCHANGED autoUpdater
         ELSE IF feed = "unconfigured"
           THEN /\ currentStatus' = [currentStatus EXCEPT !.checking = FALSE,
                                       !.downloading = FALSE,
                                       !.lastCheckComplete = TRUE, !.error = k]
                /\ clearTimers' = clearTimers \cup setTimeout(k, 4, TRUE, 1)
                /\ Called(k, TRUE)
                /\ UNCHANGED autoUpdater
           ELSE IF ~(currentStatus.checking \/ currentStatus.downloading)
             THEN /\ currentStatus' = [currentStatus EXCEPT !.lastCheckComplete = FALSE,
                                         !.error = 0, !.checking = TRUE]
                  /\ autoUpdater' = [autoUpdater EXCEPT !.checking = TRUE,
                                                        !.checks = @ + 1]
                  /\ Listened("checking-for-update", updHist.seq, FALSE, 0)
                  /\ UNCHANGED clearTimers
             ELSE UNCHANGED <<currentStatus, clearTimers, autoUpdater, updHist>>
  /\ UNCHANGED <<mainWindow, listeners, uclk, feed>>
  /\ UNCHANGED <<oauthVars, chatVars, storeVars, cfgVars, obsVars, attVars,
                 prevVars>>

\* autoUpdater.on('update-available', ...)
onUpdateAvailable ==
  /\ autoUpdater.checking /\ ~autoUpdater.quit
  /\ autoUpdater' = [autoUpdater EXCEPT !.checking = FALSE]
  /\ currentStatus' = [currentStatus EXCEPT !.checking = FALSE,
                         !.updateAvailable = TRUE, !.updateInfo = 1]
  /\ Listened("update-available", updHist.seq, FALSE, 0)
  /\ UNCHANGED <<mainWindow, listeners, clearTimers, uclk, feed>>
  /\ UNCHANGED <<oauthVars, chatVars, storeVars, cfgVars, obsVars, attVars,
                 prevVars>>

\* an 'update-not-available' listener that leaves updateInfo as it is
NotAvailableKeepsInfo ==
  [currentStatus EXCEPT !.checking = FALSE, !.updateAvailable = FALSE,
                        !.lastCheckComplete = TRUE]

\* the status the 'update-not-available' listener assigns
NotAvailable ==
  [currentStatus EXCEPT !.checking = FALSE, !.updateAvailable = FALSE,
                        !.updateInfo = 0, !.lastCheckComplete = TRUE]

\* autoUpdater.on('update-not-available', ...): the flag is cleared after 3
\* seconds
onUpdateNotAvailable ==
  /\ autoUpdater.checking /\ ~autoUpdater.quit
  /\ autoUpdater' = [autoUpdater EXCEPT !.checking = FALSE]
  /\ currentStatus' = NotAvailable
  /\ LET k == updHist.seq + 1 IN
       /\ clearTimers' = clearTimers \cup setTimeout(k, 3, FALSE, listeners)
       /\ Listened("update-not-available", k, TRUE, listeners)
  /\ UNCHANGED <<mainWindow, listeners, uclk, feed>>
  /\ UNCHANGED <<oauthVars, chatVars, storeVars, cfgVars, obsVars, attVars,
                 prevVars>>

\* a check fails: the library emits 'error' to the listeners, rejects the
\* promise of checkForUpdates(), whose catch then runs, or does both
onCheckFailed(emitted, rejected) ==
  /\ autoUpdater.checking /\ ~autoUpdater.quit
  /\ emitted \/ rejected
  /\ autoUpdater' = [autoUpdater EXCEPT !.checking = FALSE]
  /\ LET k == updHist.seq + 1 IN
       /\ currentStatus' =
            [currentStatus EXCEPT !.checking = FALSE,
               !.downloading = IF emitted THEN FALSE ELSE @,
               !.lastCheckComplete = TRUE, !.error = k]
       /\ clearTimers' = clearTimers
            \cup (IF emitted THEN setTimeout(k, 5, TRUE, listeners) ELSE {})
            \cup (IF rejected
                    THEN {[at |-> uclk + 5, error |-> TRUE, by |-> k, copy |-> 0]}
                    ELSE {})
       /\ IF emitted THEN Listened("error", k, TRUE, listeners) ELSE Called(k, TRUE)
  /\ UNCHANGED <<mainWindow, listeners, uclk, feed>>
  /\ UNCHANGED <<oauthVars, chatVars, storeVars, cfgVars, obsVars, attVars,
                 prevVars>>

\* downloadUpdate(): autoUpdater.downloadUpdate() behind the guard
downloadUpdate ==
  /\ ~autoUpdater.quit
  /\ autoUpdater.downloads < MaxDownloads
  /\ IF ~(~currentStatus.updateAvailable \/ currentStatus.downloading)
       THEN autoUpdater' = [autoUpdater EXCEPT !.downloading = TRUE,
                                               !.downloads = @ + 1]
       ELSE UNCHANGED autoUpdater
  /\ UNCHANGED <<currentStatus, mainWindow, listeners, clearTimers, uclk, feed, updHist>>
  /\ UNCHANGED <<oauthVars, chatVars, storeVars, cfgVars, obsVars, attVars,
                 prevVars>>

\* autoUpdater.on('download-progress', ...)
onDownloadProgress ==
  /\ autoUpdater.downloading /\ ~autoUpdater.quit
  /\ currentStatus' = [currentStatus EXCEPT !.downloading = TRUE,
                                            !.downloadProgress = 50]
  /\ Listened("download-progress", updHist.seq, FALSE, 0)
  /\ UNCHANGED <<mainWindow, listeners, clearTimers, uclk, feed, autoUpdater>>
  /\ UNCHANGED <<oauthVars, chatVars, storeVars, cfgVars, obsVars, attVars,
                 prevVars>>

\* autoUpdater.on('update-downloaded', ...)
onUpdateDownloaded ==
  /\ autoUpdater.downloading /\ ~autoUpdater.quit
  /\ autoUpdater' = [autoUpdater EXCEPT !.downloading = FALSE, !.downloaded = TRUE]
  /\ currentStatus' = [currentStatus EXCEPT !.downloading = FALSE,
                         !.downloadProgress = 100, !.readyToInstall = TRUE]
  /\ Listened("update-downloaded", updHist.seq, FALSE, 0)
  /\ UNCHANGED <<mainWindow, listeners, clearTimers, uclk, feed>>
  /\ UNCHANGED <<oauthVars, chatVars, storeVars, cfgVars, obsVars, attVars,
                 prevVars>>

\* a download fails: the 'error' listeners run, the catch of downloadUpdate
\* runs, or both; the catch schedules no clear
onDownloadFailed(emitted, rejected) ==
  /\ autoUpdater.downloading /\ ~autoUpdater.quit
  /\ emitted \/ rejected
  /\ autoUpdater' = [autoUpdater EXCEPT !.downloading = FALSE]
  /\ LET k == updHist.seq + 1 IN
       /\ currentStatus' =
            [currentStatus EXCEPT !.downloading = FALSE, !.error = k,
               !.checking = IF emitted THEN FALSE ELSE @,
               !.lastCheckComplete = IF emitted THEN TRUE ELSE @]
       /\ clearTimers' = clearTimers
            \cup (IF emitted THEN setTimeout(k, 5, TRUE, listeners) ELSE {})
       /\ IF emitted THEN Listened("error", k, TRUE, listeners) ELSE Called(k, FALSE)
  /\ UNCHANGED <<mainWindow, listeners, uclk, feed>>
  /\ UNCHANGED <<oauthVars, chatVars, storeVars, cfgVars, obsVars, attVars,
                 prevVars>>

\* installUpdate(): autoUpdater.quitAndInstall(false, true) behind the guard
installUpdate ==
  /\ ~autoUpdater.quit
  /\ IF currentStatus.readyToInstall
       THEN autoUpdater' = [autoUpdater EXCEPT !.quit = TRUE]
       ELSE UNCHANGED autoUpdater
  /\ UNCHANGED <<currentStatus, mainWindow, listeners, clearTimers, uclk, feed, updHist>>
  /\ UNCHANGED <<oauthVars, chatVars, storeVars, cfgVars, obsVars, attVars,
                 prevVars>>

\* the callback of a delayed clear
clearFired ==
  /\ ~autoUpdater.quit
  /\ \E tm \in clearTimers :
       /\ tm.at = uclk
       /\ clearTimers' = clearTimers \ {tm}
       /\ currentStatus' = [currentStatus EXCEPT !.lastCheckComplete = FALSE,
                              !.error = IF tm.error THEN 0 ELSE @]
  /\ Called(updHist.seq, FALSE)
  /\ UNCHANGED <<mainWindow, listeners, uclk, feed, autoUpdater>>
  /\ UNCHANGED <<oauthVars, chatVars, storeVars, cfgVars, obsVars, attVars,
                 prevVars>>

\* a second passes in the main process; the clears that are due run first
TickUpdater ==
  /\ ~autoUpdater.quit
  /\ uclk < MaxUclk
  /\ \A tm \in clearTimers : tm.at # uclk
  /\ uclk' = uclk + 1
  /\ UNCHANGED <<currentStatus, mainWindow, listeners, clearTimers, feed,
                 autoUpdater, updHist>>
  /\ UNCHANGED <<oauthVars, chatVars, storeVars, cfgVars, obsVars, attVars,
                 prevVars>>

\* mainWindow.on('closed'): the window is destroyed; the updater keeps its
\* reference to it
windowClosed ==
  /\ ~autoUpdater.quit
  /\ mainWindow.id # 0 /\ ~mainWindow.destroyed
  /\ mainWindow' = [mainWindow EXCEPT !.destroyed = TRUE]
  /\ UNCHANGED <<currentStatus, listeners, clearTimers, uclk, feed, autoUpdater, updHist>>
  /\ UNCHANGED <<oauthVars, chatVars, storeVars, cfgVars, obsVars, attVars,
                 prevVars>>

\* app.on('activate') with no window open: createWindow() and
\* initializeUpdater(mainWindow)
activate ==
  /\ ~autoUpdater.quit
  /\ mainWindow.destroyed
  /\ mainWindow.id < MaxWindows
  /\ mainWindow' = [id |-> mainWindow.id + 1, destroyed |-> FALSE]
  /\ initializeUpdater
  /\ UNCHANGED <<currentStatus, clearTimers, uclk, feed, autoUpdater, updHist>>
  /\ UNCHANGED <<oauthVars, chatVars, storeVars, cfgVars, obsVars, attVars,
                 prevVars>>

\* after app.whenReady: createWindow() and initializeUpdater(mainWindow)
InitUpdaterState ==
  /\ currentStatus = NoUpdateStatus
  /\ mainWindow = [id |-> 1, destroyed |-> FALSE]
  /\ listeners = 1
  /\ clearTimers = {}
  /\ uclk = 0
  /\ autoUpdater = NoEngine
  /\ updHist = NoUpdHist

\* a packaged application, or one with UPDATE_FEED_URL
InitUpdater == InitUpdaterState /\ feed = "configured"

NextUpdater ==
  \/ checkForUpdates
  \/ onUpdateAvailable
  \/ onUpdateNotAvailable
  \/ \E emitted \in BOOLEAN, rejected \in BOOLEAN : onCheckFailed(emitted, rejected)
  \/ downloadUpdate
  \/ onDownloadProgress
  \/ onUpdateDownloaded
  \/ \E emitted \in BOOLEAN, rejected \in BOOLEAN : onDownloadFailed(emitted, rejected)
  \/ installUpdate
  \/ clearFired
  \/ TickUpdater
  \/ windowClosed
  \/ activate

(***************************************************************************)
(* Chat page (renderer): src/unnamed/part_002                              *)
(***************************************************************************)

\* handleSendMessage: text tells whether trimmedMessage is not empty, att is
\* attachmentsToSend
HsIdle == [pc |-> "idle", id |-> 0, att |-> <<>>, text |-> FALSE]
HlIdle == [pc |-> "idle", id |-> 0, sid |-> 0, msgs |-> <<>>]
\* processFiles: id is the file whose preview is awaited, rest the files
\* from that one on, accepted and rejection the locals of the loop; over
\* and within record which files of the last selection were above the
\* limit and which were not
FsIdle ==
  [pc |-> "idle", id |-> 0, stale |-> FALSE, rest |-> <<>>, accepted |-> <<>>,
   rejection |-> 0, over |-> {}, within |-> {}]

Message(role, t) == [role |-> role, t |-> t]

NoTimer == [armed |-> FALSE, at |-> 0, msgs |-> <<>>, id |-> 0, sid |-> 0]

\* an effect whose dependencies leave out currentSessionId
autoSaveNoSessionDep(mutated) ==
  /\ IF \/ mutated
        \/ currentConversationId' # currentConversationId
       THEN /\ saveTimer' = IF Len(messages') = 0 THEN NoTimer
                            ELSE [armed |-> TRUE, at |-> clk + saveDelay, msgs |-> messages',
                                  id |-> currentConversationId', sid |-> currentSessionId']
            /\ writes' = IF mutated THEN 0 ELSE writes
       ELSE UNCHANGED <<saveTimer, writes>>
  /\ UNCHANGED clk

\* the auto-save effect, which runs after a render in which messages,
\* currentConversationId or currentSessionId changed: the pending timer is
\* cleared and, unless the list is empty, a new one is started whose callback
\* closes over the three values of that render
autoSave(mutated) ==
  /\ IF \/ mutated
        \/ currentConversationId' # currentConversationId
        \/ currentSessionId' # currentSessionId
       THEN /\ saveTimer' =
                 IF Len(messages') = 0
                   THEN NoTimer
                   ELSE [armed |-> TRUE, at |-> clk + saveDelay, msgs |-> messages',
                         id |-> currentConversationId', sid |-> currentSessionId']
            /\ writes' = IF mutated THEN 0 ELSE writes
       ELSE UNCHANGED <<saveTimer, writes>>
  /\ UNCHANGED clk

\* the effect after handleNewChat or handleLoadConversation has set
\* isInitialLoadRef.current = true: the pending timer is cleared, none is started
autoSaveSkipped ==
  /\ saveTimer' = NoTimer
  /\ writes' = 0
  /\ UNCHANGED clk

\* the previews a file can get from createImagePreview: none (null, or the
\* file is no image), a data URL, or a blob URL when the file could not be
\* read as a data URL
NoPreview == [kind |-> "none", revoked |-> 0, copied |-> FALSE]

PreviewKinds == {"none", "data", "blob"}

\* releaseAttachmentPreviews(attachments): URL.revokeObjectURL for each
\* attachment with a previewUrl that is a blob URL
releaseAttachmentPreviews(attachments) ==
  [id \in DOMAIN previewUrls |->
     IF /\ \E i \in 1..Len(attachments) : attachments[i].id = id
        /\ previewUrls[id].kind = "blob"
       THEN [previewUrls[id] EXCEPT !.revoked = IF @ < 2 THEN @ + 1 ELSE @]
       ELSE previewUrls[id]]

\* messageAttachments of handleSendMessage:
\* previewUrl: attachment.previewIsBlobUrl ? undefined : attachment.previewUrl
copyPreviews(attachments) ==
  [id \in DOMAIN previewUrls |->
     IF /\ \E i \in 1..Len(attachments) : attachments[i].id = id
        /\ previewUrls[id].kind = "data"
       THEN [previewUrls[id] EXCEPT !.copied = TRUE]
       ELSE previewUrls[id]]

\* clearPendingAttachments(); a selection whose preview is still being read
\* is from now on one made before the clear
clearPendingAttachments ==
  /\ pendingAttachments' = <<>>
  /\ previewUrls' = releaseAttachmentPreviews(pendingAttachments)
  /\ fs' = IF fs.pc = "previewing" THEN [fs EXCEPT !.stale = TRUE] ELSE fs
  /\ attachmentError' = 0

\* a file of a selection
File(size, image) == [size |-> size, image |-> image]

\* the sizes a file may have: at the limit and above it
Sizes == {MAX_ATTACHMENT_BYTES, MAX_ATTACHMENT_BYTES + 1}

Files == {File(size, image) : size \in Sizes, image \in BOOLEAN}

\* the selections: one file or more
Selections ==
  UNION {[1..n -> Files] : n \in 1..MaxSelection}

\* a size test that lets every file through
tooLargeNever(file) == FALSE

\* file.size > MAX_ATTACHMENT_BYTES
tooLarge(file) == file.size > MAX_ATTACHMENT_BYTES

\* the loop of processFiles from the file with the number id on, up to the
\* next await createImagePreview or to the end of the loop: a file above
\* the limit sets rejectionMessage and is passed over, an image within the
\* limit waits for its preview, any other file is pushed to accepted
RECURSIVE processFilesLoop(_, _, _, _)
processFilesLoop(rest, id, accepted, rejection) ==
  IF rest = <<>>
    THEN [pc |-> "done", id |-> 0, rest |-> <<>>, accepted |-> accepted,
          rejection |-> rejection]
    ELSE IF tooLarge(Head(rest))
      THEN processFilesLoop(Tail(rest), id + 1, accepted, id)
      ELSE IF Head(rest).image
        THEN [pc |-> "previewing", id |-> id, rest |-> rest, accepted |-> accepted,
              rejection |-> rejection]
        ELSE processFilesLoop(Tail(rest), id + 1,
                              Append(accepted, [id |-> id, size |-> Head(rest).size]),
                              rejection)

\* processFiles from where the loop stopped: it waits for a preview, or it
\* ends with setPendingAttachments((prev) => [...prev, ...accepted]) if any
\* file was accepted and with setAttachmentError
processFilesFrom(r, stale, over, within) ==
  IF r.pc = "previewing"
    THEN /\ fs' = [pc |-> "previewing", id |-> r.id, stale |-> stale, rest |-> r.rest,
                   accepted |-> r.accepted, rejection |-> r.rejection, over |-> over,
                   within |-> within]
         /\ UNCHANGED <<pendingAttachments, attachmentError>>
    ELSE /\ fs' = [FsIdle EXCEPT !.over = over, !.within = within]
         /\ IF mounted
              THEN /\ pendingAttachments' =
                        pendingAttachments \o
                          [i \in 1..Len(r.accepted) |->
                             [id |-> r.accepted[i].id, stale |-> stale,
                              size |-> r.accepted[i].size]]
                   /\ attachmentError' =
                        IF r.rejection # 0 THEN r.rejection
                        ELSE IF Len(r.accepted) > 0 THEN 0
                        ELSE attachmentError
              ELSE \* the setters of a component that is gone do nothing
                   UNCHANGED <<pendingAttachments, attachmentError>>

\* handleFilesSelected with a selection of files, up to the first await of
\* processFiles or to its end
handleFilesSelected(selection) ==
  /\ fs.pc = "idle"
  /\ files' = files + Len(selection)
  /\ processFilesFrom(
       processFilesLoop(selection, files + 1, <<>>, 0), FALSE,
       {files + i : i \in {j \in 1..Len(selection) :
                             selection[j].size > MAX_ATTACHMENT_BYTES}},
       {files + i : i \in {j \in 1..Len(selection) :
                             selection[j].size <= MAX_ATTACHMENT_BYTES}})
  /\ UNCHANGED <<isLoading, messages, currentConversationId, currentSessionId,
                 attempts, hs, hn, hl>>
  /\ UNCHANGED <<ctrlVars, chan, convs, histVars>>
  /\ UNCHANGED saveVars
  /\ UNCHANGED <<oauthVars, restButAtt, prevVars>>

\* processFiles after await createImagePreview(file): the image is pushed
\* to accepted with the preview it got and the loop goes on
processFilesPreviewed ==
  /\ fs.pc = "previewing"
  /\ \E kind \in PreviewKinds :
       previewUrls' = [previewUrls EXCEPT ![fs.id].kind = kind]
  /\ processFilesFrom(
       processFilesLoop(Tail(fs.rest), fs.id + 1,
                        Append(fs.accepted, [id |-> fs.id, size |-> Head(fs.rest).size]),
                        fs.rejection),
       fs.stale, fs.over, fs.within)
  /\ UNCHANGED <<isLoading, messages, currentConversationId, currentSessionId,
                 attempts, files, hs, hn, hl>>
  /\ UNCHANGED <<ctrlVars, chan, convs, histVars>>
  /\ UNCHANGED saveVars
  /\ UNCHANGED <<oauthVars, restButAtt, mounted>>

\* a guard of handleSendMessage that does not look at isLoading
SendGuardNotLoading(hasText) == hasText \/ Len(pendingAttachments) > 0

\* a guard of handleSendMessage that does not look at the content
SendGuardAnyContent(hasText) == ~isLoading

\* the guard of handleSendMessage
SendGuard(hasText) ==
  (hasText \/ Len(pendingAttachments) > 0) /\ ~isLoading

\* handleSendMessage up to await Promise.all(... arrayBuffer())
handleSendMessage(hasText) ==
  IF SendGuard(hasText)
    THEN /\ attempts < MaxTurns
         /\ hs.pc = "idle"
         /\ attempts' = attempts + 1
         /\ hs' = [pc |-> "preparing", id |-> attempts + 1, att |-> pendingAttachments,
                   text |-> hasText]
         /\ pendingAttachments' = <<>>
         /\ attachmentError' = 0
         /\ previewUrls' = copyPreviews(pendingAttachments)
         /\ messages' = Append(messages, Message("user", attempts + 1))
         /\ isLoading' = TRUE
         /\ UNCHANGED <<currentConversationId, currentSessionId, files, fs, hn, hl>>
         /\ UNCHANGED <<ctrlVars, chan, convs, term, uiTerm, flags>>
         /\ autoSave(TRUE)
         /\ UNCHANGED <<oauthVars, restButAtt, mounted>>
    ELSE UNCHANGED vars

\* handleSendMessage after the attachments are serialized (or that failed):
\* the previews of the attachments are released either way; chat.sendMessage
\* is invoked, or the error message is appended; the invoke is answered by
\* the controller or rejects (v = 2)
handleSendPrepared ==
  /\ hs.pc = "preparing"
  /\ previewUrls' = releaseAttachmentPreviews(hs.att)
  /\ \E ok \in BOOLEAN, cred \in BOOLEAN, rejects \in BOOLEAN :
       /\ ok \/ Len(hs.att) > 0
       /\ rejects => (ok /\ cred)
       /\ IF ok
            THEN /\ IF rejects
                      THEN /\ chan' = Append(chan, Msg("sendReply", hs.id, 2))
                           /\ UNCHANGED <<ctrlVars, term, flags>>
                      ELSE sendMessage(chan, hs.id, cred)
                 /\ hs' = [hs EXCEPT !.pc = "awaiting"]
                 /\ UNCHANGED <<messages, isLoading>>
            ELSE /\ messages' = Append(messages, Message("error", hs.id))
                 /\ isLoading' = FALSE
                 /\ hs' = HsIdle
                 /\ UNCHANGED <<ctrlVars, chan, term, flags>>
  /\ UNCHANGED <<currentConversationId, currentSessionId, pendingAttachments,
                 attempts, files, fs, hn, hl>>
  /\ UNCHANGED <<convs, uiTerm>>
  /\ autoSave(messages' # messages)
  /\ UNCHANGED <<oauthVars, restButAtt, attVars, mounted>>

\* handleRemoveAttachment(attachmentId): the preview of the attachment is
\* released and the attachment is taken from the list
handleRemoveAttachment(i) ==
  /\ i \in 1..Len(pendingAttachments)
  /\ previewUrls' = releaseAttachmentPreviews(<<pendingAttachments[i]>>)
  /\ pendingAttachments' =
       SubSeq(pendingAttachments, 1, i - 1)
         \o SubSeq(pendingAttachments, i + 1, Len(pendingAttachments))
  /\ UNCHANGED <<isLoading, messages, currentConversationId, currentSessionId,
                 attempts, files, fs, hs, hn, hl>>
  /\ UNCHANGED <<ctrlVars, chan, convs, histVars>>
  /\ UNCHANGED saveVars
  /\ UNCHANGED <<oauthVars, restButAtt, attVars, mounted>>

\* the page unmounts: the cleanup of the effect releases the previews of
\* pendingAttachmentsRef.current, and the state of the component is gone
unmount ==
  /\ mounted
  /\ hs.pc = "idle" /\ hn = "idle" /\ hl.pc = "idle" /\ ~isLoading
  /\ mounted' = FALSE
  /\ previewUrls' = releaseAttachmentPreviews(pendingAttachments)
  /\ pendingAttachments' = <<>>
  /\ UNCHANGED <<isLoading, messages, currentConversationId, currentSessionId,
                 attempts, files, fs, hs, hn, hl>>
  /\ UNCHANGED <<ctrlVars, chan, convs, histVars>>
  /\ UNCHANGED saveVars
  /\ UNCHANGED <<oauthVars, restButAtt, attVars>>

\* a handleSendMessage that shows the error and keeps the loading indicator
handleSendRepliedLoading ==
  /\ hs.pc = "awaiting"
  /\ chan # <<>> /\ Head(chan).k = "sendReply"
  /\ chan' = Tail(chan)
  /\ hs' = HsIdle
  /\ IF Head(chan).v # 1
       THEN /\ messages' = Append(messages, Message("error", hs.id))
            /\ UNCHANGED isLoading
       ELSE UNCHANGED <<messages, isLoading>>
  /\ UNCHANGED <<currentConversationId, currentSessionId, pendingAttachments,
                 attempts, files, fs, hn, hl>>
  /\ UNCHANGED <<ctrlVars, convs, histVars>>
  /\ autoSave(messages' # messages)
  /\ UNCHANGED <<oauthVars, restVars>>

\* handleSendMessage after await chat.sendMessage(...): the response has
\* success false and an error, or the call rejected (catch)
handleSendReplied ==
  /\ hs.pc = "awaiting"
  /\ chan # <<>> /\ Head(chan).k = "sendReply"
  /\ chan' = Tail(chan)
  /\ hs' = HsIdle
  /\ IF Head(chan).v # 1
       THEN /\ messages' = Append(messages, Message("error", hs.id))
            /\ isLoading' = FALSE
       ELSE UNCHANGED <<messages, isLoading>>
  /\ UNCHANGED <<currentConversationId, currentSessionId, pendingAttachments,
                 attempts, files, fs, hn, hl>>
  /\ UNCHANGED <<ctrlVars, convs, histVars>>
  /\ autoSave(messages' # messages)
  /\ UNCHANGED <<oauthVars, restVars>>

\* handleStopStreaming: chat.stopMessage unless not loading
handleStopStreaming ==
  /\ IF isLoading
       THEN stopMessage
       ELSE UNCHANGED <<ctrlVars, term, flags, chan, ignoredStop>>
  /\ UNCHANGED <<convs, uiVars, uiTerm>>
  /\ UNCHANGED saveVars
  /\ UNCHANGED <<oauthVars, storeVars, cfgVars, attVars, updVars, prevVars>>

\* handlers that reset whether a turn is shown in progress or not
ResetGuardAlways == TRUE

\* the guard of handleNewChat and of handleLoadConversation
ResetGuard == ~isLoading

\* a save before the switch that does not look at the message list
SavesFirstAnyList == currentConversationId # 0

\* both handlers save the conversation on screen first
SavesFirst == currentConversationId # 0 /\ Len(messages) > 0

\* handleNewChat up to its first await
handleNewChat ==
  /\ hn = "idle" /\ hl.pc = "idle"
  /\ IF ResetGuard
       THEN /\ clearPendingAttachments
            /\ IF SavesFirst
                 THEN /\ \E ok \in BOOLEAN :
                           /\ convs' = update(currentConversationId, messages,
                                              currentSessionId, ok)
                           /\ chan' = Append(chan, Msg("newSaved", 0, IF ok THEN 1 ELSE 0))
                      /\ hn' = "saving"
                      /\ UNCHANGED <<ctrlVars, term, flags>>
                 ELSE /\ resetSession(chan, 0, Msg("newReset", 0, 1))
                      /\ hn' = "resetting"
                      /\ UNCHANGED convs
       ELSE UNCHANGED <<pendingAttachments, previewUrls, fs, attachmentError, hn, ctrlVars, term,
                        flags, chan, convs>>
  /\ UNCHANGED <<isLoading, messages, currentConversationId, currentSessionId,
                 attempts, files, hs, hl>>
  /\ UNCHANGED uiTerm
  /\ UNCHANGED saveVars
  /\ UNCHANGED <<oauthVars, restButAtt, mounted>>

\* handleNewChat after the save: await chat.resetSession()
handleNewChatSaved ==
  /\ hn = "saving"
  /\ chan # <<>> /\ Head(chan).k = "newSaved"
  /\ resetSession(Tail(chan), 0, Msg("newReset", 0, 1))
  /\ hn' = "resetting"
  /\ UNCHANGED <<isLoading, messages, currentConversationId, currentSessionId,
                 pendingAttachments, attempts, files, fs, hs, hl>>
  /\ UNCHANGED <<convs, uiTerm>>
  /\ UNCHANGED saveVars
  /\ UNCHANGED <<oauthVars, restVars>>

\* handleNewChat after the reset: the page is cleared
handleNewChatReset ==
  /\ hn = "resetting"
  /\ chan # <<>> /\ Head(chan).k = "newReset"
  /\ chan' = Tail(chan)
  /\ messages' = <<>>
  /\ currentConversationId' = 0
  /\ currentSessionId' = 0
  /\ hn' = "idle"
  /\ UNCHANGED <<isLoading, pendingAttachments, attempts, files, fs, hs, hl>>
  /\ UNCHANGED <<ctrlVars, convs, histVars>>
  /\ autoSaveSkipped
  /\ UNCHANGED <<oauthVars, restVars>>

\* await conversation.get(conversationId): the reply carries the record
GetIssued(base, id) ==
  /\ chan' = Append(base, Msg("loadGot", 0, IF id \in 1..Len(convs) THEN 1 ELSE 0))
  /\ hl' = IF id \in 1..Len(convs)
             THEN [pc |-> "getting", id |-> id, sid |-> convs'[id].sessionId,
                   msgs |-> convs'[id].msgs]
             ELSE [HlIdle EXCEPT !.pc = "getting", !.id = id]

\* handleLoadConversation up to its first await
handleLoadConversation(conversationId) ==
  /\ hl.pc = "idle" /\ hn = "idle"
  /\ IF ResetGuard
       THEN /\ clearPendingAttachments
            /\ IF SavesFirst
                 THEN /\ \E ok \in BOOLEAN :
                           /\ convs' = update(currentConversationId, messages,
                                              currentSessionId, ok)
                           /\ chan' = Append(chan, Msg("loadSaved", 0, IF ok THEN 1 ELSE 0))
                      /\ hl' = [HlIdle EXCEPT !.pc = "saving", !.id = conversationId]
                 ELSE /\ UNCHANGED convs
                      /\ GetIssued(chan, conversationId)
       ELSE UNCHANGED <<pendingAttachments, previewUrls, fs, attachmentError, hl, chan,
                        convs>>
  /\ UNCHANGED <<isLoading, messages, currentConversationId, currentSessionId,
                 attempts, files, hs, hn>>
  /\ UNCHANGED <<ctrlVars, term, uiTerm, flags>>
  /\ UNCHANGED saveVars
  /\ UNCHANGED <<oauthVars, restButAtt, mounted>>

\* handleLoadConversation after the save: await conversation.get(id)
handleLoadSaved ==
  /\ hl.pc = "saving"
  /\ chan # <<>> /\ Head(chan).k = "loadSaved"
  /\ UNCHANGED convs
  /\ GetIssued(Tail(chan), hl.id)
  /\ UNCHANGED <<isLoading, messages, currentConversationId, currentSessionId,
                 pendingAttachments, attempts, files, fs, hs, hn>>
  /\ UNCHANGED <<ctrlVars, histVars>>
  /\ UNCHANGED saveVars
  /\ UNCHANGED <<oauthVars, restVars>>

\* a handler that resets the session before it looks at the answer
handleLoadGotResetsFirst ==
  /\ hl.pc = "getting"
  /\ chan # <<>> /\ Head(chan).k = "loadGot"
  /\ \E parsed \in BOOLEAN :
       IF Head(chan).v = 1 /\ parsed
         THEN /\ resetSession(Tail(chan), hl.sid, Msg("loadReset", 0, 1))
              /\ hl' = [hl EXCEPT !.pc = "resetting"]
         ELSE /\ resetSession(Tail(chan), hl.sid, Msg("loadFailed", 0, 0))
              /\ hl' = HlIdle
  /\ UNCHANGED <<isLoading, messages, currentConversationId, currentSessionId,
                 pendingAttachments, attempts, files, fs, hs, hn>>
  /\ UNCHANGED <<convs, uiTerm>>
  /\ UNCHANGED saveVars
  /\ UNCHANGED <<oauthVars, restVars>>

\* handleLoadConversation after the get: on success JSON.parse of the stored
\* messages, which throws into the catch when they are not well formed, then
\* await chat.resetSession(response.conversation.sessionId ?? null)
handleLoadGot ==
  /\ hl.pc = "getting"
  /\ chan # <<>> /\ Head(chan).k = "loadGot"
  /\ \E parsed \in BOOLEAN :
       IF Head(chan).v = 1 /\ parsed
         THEN /\ resetSession(Tail(chan), hl.sid, Msg("loadReset", 0, 1))
              /\ hl' = [hl EXCEPT !.pc = "resetting"]
         ELSE /\ chan' = Tail(chan)
              /\ hl' = HlIdle
              /\ UNCHANGED <<ctrlVars, term, flags>>
  /\ UNCHANGED <<isLoading, messages, currentConversationId, currentSessionId,
                 pendingAttachments, attempts, files, fs, hs, hn>>
  /\ UNCHANGED <<convs, uiTerm>>
  /\ UNCHANGED saveVars
  /\ UNCHANGED <<oauthVars, restVars>>

\* handleLoadConversation after the reset: the record is put on screen
handleLoadReset ==
  /\ hl.pc = "resetting"
  /\ chan # <<>> /\ Head(chan).k = "loadReset"
  /\ chan' = Tail(chan)
  /\ messages' = hl.msgs
  /\ currentConversationId' = hl.id
  /\ currentSessionId' = hl.sid
  /\ hl' = HlIdle
  /\ UNCHANGED <<isLoading, pendingAttachments, attempts, files, fs, hs, hn>>
  /\ UNCHANGED <<ctrlVars, convs, histVars>>
  /\ autoSaveSkipped
  /\ UNCHANGED <<oauthVars, restVars>>

\* an onSessionUpdated that keeps the session id the page already has
SessionUpdatedKeepsFirst(prev, sid) == IF prev # 0 THEN prev ELSE sid

\* onSessionUpdated: setCurrentSessionId((prev) => (prev === sessionId ? prev : sessionId))
SessionUpdated(prev, sid) == IF prev = sid THEN prev ELSE sid

onSessionUpdated ==
  /\ chan # <<>> /\ Head(chan).k = "session"
  /\ chan' = Tail(chan)
  /\ currentSessionId' = SessionUpdated(currentSessionId, Head(chan).v)
  /\ UNCHANGED <<isLoading, messages, currentConversationId, pendingAttachments,
                 attempts, files, fs, hs, hn, hl>>
  /\ UNCHANGED <<ctrlVars, convs, histVars>>
  /\ autoSave(FALSE)
  /\ UNCHANGED <<oauthVars, restVars>>

\* useClaudeChat: a content delta goes into the assistant message being
\* streamed, which the first delta creates
onDelta ==
  /\ chan # <<>> /\ Head(chan).k = "delta"
  /\ chan' = Tail(chan)
  /\ messages' = IF Len(messages) > 0 /\ messages[Len(messages)].role = "assistant"
                   THEN messages
                   ELSE Append(messages, Message("assistant", Head(chan).t))
  /\ UNCHANGED <<isLoading, currentConversationId, currentSessionId,
                 pendingAttachments, attempts, files, fs, hs, hn, hl>>
  /\ UNCHANGED <<ctrlVars, convs, histVars>>
  /\ autoSave(TRUE)
  /\ UNCHANGED <<oauthVars, restVars>>

\* useClaudeChat: a terminal event clears the loading indicator; an error is
\* shown as a message
onTerminal ==
  /\ chan # <<>> /\ Head(chan).k \in {"complete", "error"}
  /\ chan' = Tail(chan)
  /\ isLoading' = FALSE
  /\ messages' = IF Head(chan).k = "error"
                   THEN Append(messages, Message("error", Head(chan).t))
                   ELSE messages
  /\ uiTerm' = [uiTerm EXCEPT ![Head(chan).t] = IF @ < 2 THEN @ + 1 ELSE @]
  /\ UNCHANGED <<currentConversationId, currentSessionId, pendingAttachments,
                 attempts, files, fs, hs, hn, hl>>
  /\ UNCHANGED <<ctrlVars, convs, term, flags>>
  /\ autoSave(messages' # messages)
  /\ UNCHANGED <<oauthVars, restVars>>

\* the callback of the auto-save timer, 2 seconds after the timer was
\* started: conversation.update if the render it closes over had a
\* conversation id, conversation.create otherwise
saveTimerFired ==
  /\ saveTimer.armed
  /\ clk = saveTimer.at
  /\ saveTimer' = NoTimer
  /\ writes' = IF writes < 2 THEN writes + 1 ELSE writes
  /\ \E ok \in BOOLEAN :
       IF saveTimer.id # 0
         THEN /\ convs' = update(saveTimer.id, saveTimer.msgs, saveTimer.sid, ok)
              /\ chan' = Append(chan, Msg("saveUpdated", 0, IF ok THEN 1 ELSE 0))
         ELSE /\ convs' = create(saveTimer.msgs, saveTimer.sid, ok)
              /\ chan' = Append(chan, Msg("saveCreated", 0, IF ok THEN Len(convs) + 1 ELSE 0))
  /\ UNCHANGED <<ctrlVars, uiVars, histVars, clk>>
  /\ UNCHANGED <<oauthVars, restVars>>

\* the callback after await conversation.update(...)
saveUpdatedReplied ==
  /\ chan # <<>> /\ Head(chan).k = "saveUpdated"
  /\ chan' = Tail(chan)
  /\ UNCHANGED <<ctrlVars, convs, uiVars, histVars, saveVars>>
  /\ UNCHANGED <<oauthVars, restVars>>

\* the callback after await conversation.create(...):
\* if (response.success && response.conversation) setCurrentConversationId(id)
saveCreatedReplied ==
  /\ chan # <<>> /\ Head(chan).k = "saveCreated"
  /\ chan' = Tail(chan)
  /\ currentConversationId' =
       IF Head(chan).v # 0 THEN Head(chan).v ELSE currentConversationId
  /\ UNCHANGED <<isLoading, messages, currentSessionId, pendingAttachments,
                 attempts, files, fs, hs, hn, hl>>
  /\ UNCHANGED <<ctrlVars, convs, histVars>>
  /\ autoSave(FALSE)
  /\ UNCHANGED <<oauthVars, restVars>>

\* a second passes on the page; a timer that is due fires first
TickPage ==
  /\ clk < MaxClk
  /\ ~(saveTimer.armed /\ saveTimer.at = clk)
  /\ clk' = clk + 1
  /\ UNCHANGED <<ctrlVars, chan, convs, uiVars, histVars, saveTimer, writes>>
  /\ UNCHANGED <<oauthVars, restVars>>

\* the record the application starts with: one conversation of an earlier run
StoredConversation ==
  [msgs |-> <<Message("user", 0), Message("assistant", 0)>>, sessionId |-> 1]

InitChat ==
  /\ status = "Idle"
  /\ sessionId = 0
  /\ turn = 0
  /\ calls = [t \in Turns |-> NoCall]
  /\ nextSid = 1
  /\ chan = <<>>
  /\ convs = <<StoredConversation>>
  /\ isLoading = FALSE
  /\ messages = <<>>
  /\ currentConversationId = 0
  /\ currentSessionId = 0
  /\ pendingAttachments = <<>>
  /\ attempts = 0
  /\ files = 0
  /\ fs = FsIdle
  /\ hs = HsIdle
  /\ hn = "idle"
  /\ hl = HlIdle
  /\ term = [t \in Turns |-> 0]
  /\ uiTerm = [t \in Turns |-> 0]
  /\ flags = [t \in Turns |-> [stopped |-> FALSE, how |-> "none", sid |-> 0, stale |-> 0]]
  /\ clk = 0
  /\ saveTimer = NoTimer
  /\ writes = 0

NextChat ==
  \/ \E t \in Turns : RemoteInit(t)
  \/ \E t \in Turns : RemoteDelta(t)
  \/ \E t \in Turns : RemoteEnd(t)
  \/ \E t \in Turns : RemoteAck(t)
  \/ CancelTimeout
  \/ \E hasText \in BOOLEAN : handleSendMessage(hasText)
  \/ handleSendPrepared
  \/ handleSendReplied
  \/ handleStopStreaming
  \/ handleNewChat
  \/ handleNewChatSaved
  \/ handleNewChatReset
  \/ \E id \in 1..(Len(convs) + 1) : handleLoadConversation(id)
  \/ handleLoadSaved
  \/ handleLoadGot
  \/ handleLoadReset
  \/ onSessionUpdated
  \/ onDelta
  \/ onTerminal

NextOAuth ==
  \/ \E c \in Callers : GvatStart(c)
  \/ \E c \in Callers : GvatRefreshOk(c)
  \/ \E c \in Callers : GvatRefreshFailed(c)
  \/ Tick
  \/ SlStart
  \/ SlGenerated
  \/ SlOpened
  \/ \E createKey \in BOOLEAN : ClStart(createKey)
  \/ ClExchangeFailed
  \/ ClExchangeOk
  \/ ClCreateKeyFailed
  \/ ClCreateKeyOk
  \/ OAuthCancel
  \/ OAuthLogout

\* the selection of files
\* one file within the size limit at a time
NextFiles ==
  \/ /\ files < MaxFiles
     /\ \E image \in BOOLEAN :
          handleFilesSelected(<<File(MAX_ATTACHMENT_BYTES, image)>>)
  \/ processFilesPreviewed

\* no file has a preview yet; the page is mounted
InitPreviews ==
  /\ previewUrls = [id \in 1..(MaxFiles + MaxGateFiles) |-> NoPreview]
  /\ mounted = TRUE

InitProgram ==
  /\ InitOAuth /\ InitChat /\ InitStore /\ InitConfig /\ attachmentError = 0
  /\ InitUpdater /\ InitPreviews

Init == InitProgram /\ ignoredStop = "off"

\* the credential store and the OAuth handlers alone
SpecOAuth == Init /\ [][NextOAuth]_vars

\* the chat page, the session controller and the conversation store, no file
\* being attached
SpecChat == Init /\ [][NextChat]_vars

\* the chat page with its attachments: files are selected, turns are sent and
\* answered, conversations are started and loaded; no turn is stopped and no
\* partial content is streamed
NextAttach ==
  \/ NextFiles
  \/ \E t \in Turns : RemoteInit(t)
  \/ \E t \in Turns : RemoteEnd(t)
  \/ \E hasText \in BOOLEAN : handleSendMessage(hasText)
  \/ handleSendPrepared
  \/ handleSendReplied
  \/ handleNewChat
  \/ handleNewChatSaved
  \/ handleNewChatReset
  \/ \E id \in 1..(Len(convs) + 1) : handleLoadConversation(id)
  \/ handleLoadSaved
  \/ handleLoadGot
  \/ handleLoadReset
  \/ onSessionUpdated
  \/ onTerminal

SpecAttach == Init /\ [][NextAttach]_vars

\* the selection of files of any size, and the sends that take them along
NextGate ==
  \/ \E selection \in Selections :
       /\ files + Len(selection) <= MaxGateFiles
       /\ handleFilesSelected(selection)
  \/ processFilesPreviewed
  \/ \E hasText \in BOOLEAN : handleSendMessage(hasText)
  \/ handleSendPrepared
  \/ handleSendReplied
  \/ \E t \in Turns : RemoteEnd(t)
  \/ onTerminal

SpecGate == Init /\ [][NextGate]_vars

\* one fresh chat with its auto-save: turns are sent and answered while the
\* clock runs; no turn is stopped, no conversation is started or loaded
NextSave ==
  \/ \E t \in Turns : RemoteInit(t)
  \/ \E t \in Turns : RemoteDelta(t)
  \/ \E t \in Turns : RemoteEnd(t)
  \/ \E hasText \in BOOLEAN : handleSendMessage(hasText)
  \/ handleSendPrepared
  \/ handleSendReplied
  \/ onSessionUpdated
  \/ onDelta
  \/ onTerminal
  \/ saveTimerFired
  \/ saveUpdatedReplied
  \/ saveCreatedReplied
  \/ TickPage

SpecSave == Init /\ [][NextSave]_vars

\* the same chat with turns that are stopped
NextStopSave ==
  \/ NextSave
  \/ handleStopStreaming
  \/ \E t \in Turns : RemoteAck(t)
  \/ CancelTimeout

SpecStopSave == Init /\ [][NextStopSave]_vars

\* the chat with its auto-save while the user starts new chats and loads
\* stored conversations
NextSwitch ==
  \/ \E t \in Turns : RemoteEnd(t)
  \/ \E hasText \in BOOLEAN : handleSendMessage(hasText)
  \/ handleSendPrepared
  \/ handleSendReplied
  \/ onTerminal
  \/ saveTimerFired
  \/ saveUpdatedReplied
  \/ saveCreatedReplied
  \/ TickPage
  \/ handleNewChat
  \/ handleNewChatSaved
  \/ handleNewChatReset
  \/ \E id \in 1..(Len(convs) + 1) : handleLoadConversation(id)
  \/ handleLoadSaved
  \/ handleLoadGot
  \/ handleLoadReset

SpecSwitch == Init /\ [][NextSwitch]_vars

\* the attachments of the page and their previews: files are selected,
\* removed, cleared by a new chat and sent, and the page unmounts
NextPreview ==
  \/ /\ mounted
     /\ \E selection \in Selections :
          /\ files + Len(selection) <= MaxGateFiles
          /\ handleFilesSelected(selection)
  \/ processFilesPreviewed
  \/ mounted /\ \E i \in 1..MaxGateFiles : handleRemoveAttachment(i)
  \/ mounted /\ \E hasText \in BOOLEAN : handleSendMessage(hasText)
  \/ handleSendPrepared
  \/ handleSendReplied
  \/ \E t \in Turns : RemoteEnd(t)
  \/ onTerminal
  \/ mounted /\ handleNewChat
  \/ handleNewChatReset
  \/ unmount

SpecPreview == Init /\ [][NextPreview]_vars

\* the state after app.whenReady, whatever the set-up of the feed
InitFeeds ==
  /\ InitOAuth /\ InitChat /\ InitStore /\ InitConfig /\ attachmentError = 0
  /\ ignoredStop = "off" /\ InitPreviews
  /\ InitUpdaterState /\ feed \in Feeds

\* the update controller alone
SpecUpdater == InitFeeds /\ [][NextUpdater]_vars

Next ==
  \/ NextOAuth \/ NextChat \/ NextFiles \/ NextSave \/ NextStore \/ NextConfig
  \/ NextGate \/ NextUpdater

\* the whole application
Spec == Init /\ [][Next]_vars

\* the state after construction, with the stop requests being recorded
InitStop == InitProgram /\ ignoredStop = "no"

\* the chat page and the session controller, with the record of the stop
\* requests that had no effect
SpecStop == InitStop /\ [][NextChat]_vars

\* the conversation store alone
SpecStore == Init /\ [][NextStore]_vars

\* the config store and its handlers alone
SpecConfig == Init /\ [][NextConfig]_vars

\* the stored credentials alone
SpecCred == Init /\ [][NextCred]_vars

\* the messages the renderer has received are handled one after the other
Deliver ==
  \/ handleSendReplied
  \/ handleNewChatSaved
  \/ handleNewChatReset
  \/ handleLoadSaved
  \/ handleLoadGot
  \/ handleLoadReset
  \/ onSessionUpdated
  \/ onDelta
  \/ onTerminal

\* SpecChat where the event loops run, the timer of the bounded wait fires
\* and a remote call that is not being stopped comes to its end; nothing is
\* assumed of a call that was told to stop
FairSpecChat ==
  /\ SpecChat
  /\ WF_vars(Deliver)
  /\ WF_vars(handleSendPrepared)
  /\ WF_vars(CancelTimeout)
  /\ \A t \in Turns : WF_vars(RemoteEnd(t))

(***************************************************************************)
(* The credential store and the OAuth handlers: properties.                *)
(***************************************************************************)

\* C8: a getValidAccessToken call whose refresh fails (it leaves the
\* refresh without a token response having been issued) leaves the stored
\* token pair as it was and returns null to its caller.
C8_FailedRefreshKeepsTokens ==
  [][\A c \in Callers :
       (gvat[c].pc = "refreshing" /\ gvat'[c].pc = "idle" /\ issued' = issued)
         => (oauthTokens' = oauthTokens /\ gvat'[c].result = 0)]_vars

\* a refresh has failed while a token pair is stored
C8_Witness ==
  \E c \in Callers :
    /\ gvat[c].pc = "idle"
    /\ gvat[c].refreshed
    /\ ~gvat[c].threw
    /\ gvat[c].result = 0
    /\ oauthTokens # NoTokens

\* C9: at most one token refresh is in flight at any time.
C9_OneRefreshInFlight ==
  Cardinality({c \in Callers : gvat[c].pc = "refreshing"}) <= 1

\* C17: getValidAccessToken never throws: every call ends in a result, null
\* or an access token.
C17_GvatNeverThrows ==
  \A c \in Callers : ~gvat[c].threw

\* C18: the stored OAuth record is always a whole pair from one token
\* response. Whenever the record changes it is either removed, or all its
\* fields are those of the token response issued in that step: the access
\* and the refresh token of that response and an expiry computed from its
\* expires_in at the time of the response.
C18_StoredPairIsOneResponse ==
  /\ [](oauthTokens = NoTokens
          \/ (/\ oauthTokens.access \in 1..issued
              /\ oauthTokens.refresh = oauthTokens.access))
  /\ [][oauthTokens' # oauthTokens =>
          \/ oauthTokens' = NoTokens
          \/ /\ issued' = issued + 1
             /\ oauthTokens'.access = issued'
             /\ oauthTokens'.refresh = issued'
             /\ \E e \in ExpiresIn : oauthTokens'.expires = now + e]_vars

\* a refresh replaced a stored pair while a login was exchanging its code
C18_Witness ==
  /\ cl.pc = "exchanging"
  /\ oauthTokens # NoTokens
  /\ \E c \in Callers : gvat[c].refreshed /\ gvat[c].result = oauthTokens.access
                          /\ gvat[c].result > 1

\* C10: whenever oauth:complete-login returns, the PKCE verifier held in
\* memory has been discarded.
C10_VerifierDiscardedAtEnd ==
  [][(cl.pc # "idle" /\ cl'.pc = "idle") => currentPKCEVerifier' = 0]_vars

\* C16: no handler lets an exception escape: whenever something failed
\* inside a handler call, the call ended in a result whose success flag is
\* false and which carries a message.
C16_FailuresAreResults ==
  cfgReply.failed =>
    (cfgReply.out = "result" /\ cfgReply.flag = "false" /\ cfgReply.error)

\* C19: the persisted config never holds both a locally stored API key and
\* an OAuth token pair.
C19_KeyAndTokensExclusive ==
  ~(config.apiKey # 0 /\ oauthTokens # NoTokens)

\* C21: with no environment override, a config:set-api-key call that passes
\* null, an empty string or only spaces, and in which nothing failed, leaves
\* no key stored and returns the status configured = false, source = null,
\* whatever calls came before it.
C21_NullClearsKey ==
  (/\ cfgReply.h = "set-api-key"
   /\ cfgReply.out = "result"
   /\ ~cfgReply.failed
   /\ env.apiKey = 0
   /\ \A i \in 1..Len(cfgReply.arg) : cfgReply.arg[i] = Space)
    => (/\ config.apiKey = 0
        /\ ~cfgReply.status.configured
        /\ cfgReply.status.source = "none")

\* a stored key was cleared by a call that passed only spaces
C21_Witness ==
  /\ cfgReply.h = "set-api-key"
  /\ cfgReply.out = "result"
  /\ ~cfgReply.failed
  /\ env.apiKey = 0
  /\ cfgReply.arg = <<Space>>
  /\ cfgReply.was # 0
  /\ config.apiKey = 0

\* C20: the status that the api-key and the base-url handlers report has
\* source env and the value of the environment variable whenever the
\* variable is set, whatever is stored locally; it has source local, with
\* the stored value, only when the variable is absent; with neither it is
\* not configured.
C20_EnvOverrideWins ==
  LET Agrees(st, envValue, stored) ==
        /\ envValue # 0 =>
             (st.configured /\ st.source = "env" /\ st.value = envValue)
        /\ st.source = "local" =>
             (envValue = 0 /\ stored # 0 /\ st.value = stored /\ st.configured)
        /\ (envValue = 0 /\ stored # 0) => st.source = "local"
        /\ (envValue = 0 /\ stored = 0) =>
             (~st.configured /\ st.source = "none")
  IN /\ (cfgReply.out = "result"
           /\ cfgReply.h \in {"get-api-key-status", "set-api-key"})
          => Agrees(cfgReply.status, env.apiKey, config.apiKey)
     /\ (cfgReply.out = "result"
           /\ cfgReply.h \in {"get-base-url-status", "set-base-url"})
          => Agrees(cfgReply.status, env.baseUrl, config.anthropicBaseUrl)

\* a key was stored locally by config:set-api-key while the environment
\* variable is set, and the call reported the environment's
C20_Witness ==
  /\ env.apiKey # 0
  /\ config.apiKey # 0
  /\ cfgReply.h = "set-api-key"
  /\ cfgReply.out = "result"
  /\ cfgReply.status.source = "env"

(***************************************************************************)
(* The chat page and the session controller: properties.                   *)
(***************************************************************************)

\* the turns that were accepted and whose terminal event is not yet emitted
Live == {t \in Turns : calls[t].st # "none" /\ term[t] = 0}

\* C1: sends are single-flight. At most one accepted turn is without its
\* terminal event, it is the one the controller serves while it is
\* Streaming or Cancelling, and in those states the page shows the turn in
\* progress, so that the guard of handleSendMessage turns a further send away
\* and no second request reaches the controller.
C1_SingleFlight ==
  /\ Cardinality(Live) <= 1
  /\ status # "Idle" => Live = {turn}
  /\ status # "Idle" => (isLoading /\ ~SendGuard(TRUE))

\* a turn streams, its send has returned to the page, and the user could
\* still type a message
C1_Witness ==
  /\ status = "Streaming"
  /\ hs.pc = "idle"
  /\ attempts < MaxTurns
  /\ isLoading

\* C2: every accepted send gets exactly one terminal event: never two are
\* emitted or received for a turn, a turn that was stopped does not end with
\* an error, and the terminal event of an accepted turn reaches the page.
C2_OneTerminalPerTurn ==
  /\ [](\A t \in Turns :
          /\ term[t] <= 1
          /\ uiTerm[t] <= 1
          /\ flags[t].stopped => flags[t].how # "error")
  /\ \A t \in Turns : (calls[t].st # "none") ~> (uiTerm[t] = 1)

\* a stopped turn has had its completion received by the page
C2_Witness ==
  \E t \in Turns :
    /\ flags[t].stopped
    /\ flags[t].how \in {"ack", "timeout"}
    /\ uiTerm[t] = 1

\* C3: a controller that is Cancelling becomes Idle, acknowledgment or not.
C3_CancellingLeadsToIdle == (status = "Cancelling") ~> (status = "Idle")

\* the bounded wait ran out: the controller is Idle again while the call it
\* told to stop has still not acknowledged
C3_Witness ==
  \E t \in Turns :
    /\ flags[t].how = "timeout"
    /\ calls[t].st = "aborting"
    /\ status = "Idle"

\* the events of turn t that are on their way to the page
Pending(t, kinds) == {i \in 1..Len(chan) : chan[i].t = t /\ chan[i].k \in kinds}

\* C4: once the terminal event of a stopped turn is emitted no content delta
\* of that turn follows it, and none is on its way once the page has received
\* the terminal event.
C4_NoDeltaAfterCancel ==
  \A t \in Turns :
    flags[t].stopped =>
      /\ \A i \in Pending(t, {"complete", "error"}), j \in Pending(t, {"delta"}) : j < i
      /\ uiTerm[t] >= 1 => Pending(t, {"delta"}) = {}

\* the page has received the completion of a turn that was forced back to
\* Idle, and the call of that turn is still open and may produce content
C4_Witness ==
  \E t \in Turns :
    /\ flags[t].how = "timeout"
    /\ uiTerm[t] = 1
    /\ calls[t].st = "aborting"
    /\ calls[t].n < MaxDeltas

ResetReplies == {i \in 1..Len(chan) : chan[i].k \in {"newReset", "loadReset"}}

C6_ResetLeavesNoAttachment ==
  \A i \in 1..Len(pendingAttachments) : ~pendingAttachments[i].stale

\* C7: a turn whose resume was rejected is carried on as a fresh session:
\* the rejection emits nothing and leaves the controller Streaming, the
\* session id the turn then gets differs from the rejected one, and when the
\* turn and the handlers are through the page holds that new id.
C7_ResumeFallback ==
  /\ [][\A t \in Turns :
          flags'[t].stale # flags[t].stale =>
            /\ status' = "Streaming"
            /\ chan' = chan
            /\ calls'[t] = [st |-> "starting", resume |-> 0, n |-> 0]]_vars
  /\ [](\A t \in Turns :
          (flags[t].stale # 0 /\ flags[t].sid # 0) =>
            /\ flags[t].sid # flags[t].stale
            /\ (/\ sessionId = flags[t].sid
                /\ status = "Idle" /\ chan = <<>>
                /\ hs.pc = "idle" /\ hn = "idle" /\ hl.pc = "idle")
                 => currentSessionId = flags[t].sid)

\* a turn that fell back has completed and the page is at rest
C7_Witness ==
  \E t \in Turns :
    /\ flags[t].stale # 0 /\ flags[t].sid # 0
    /\ flags[t].how = "complete"
    /\ sessionId = flags[t].sid
    /\ status = "Idle" /\ chan = <<>>
    /\ hs.pc = "idle" /\ hn = "idle" /\ hl.pc = "idle"
    /\ currentSessionId = flags[t].sid

(***************************************************************************)
(* The auto-save effect of the chat page: properties.                      *)
(***************************************************************************)

\* C22: a session id assigned during a turn is captured even if the turn is
\* then cancelled. The controller's sessionId changes only with a
\* session-assigned event that carries the new value or with a reset, so a
\* stop, its acknowledgment and the cancel timeout leave it; once a stopped
\* turn has ended and its events are handled, the page's currentSessionId is
\* the id the turn was assigned; a pending auto-save carries the page's
\* session id, and a conversation record written while the page holds a
\* session id is written with that id.
C22_SessionIdSurvivesCancel ==
  /\ [][sessionId' # sessionId =>
          /\ chan' # <<>>
          /\ LET m == chan'[Len(chan')] IN
               \/ m.k = "session" /\ m.v = sessionId'
               \/ m.k \in {"newReset", "loadReset"}]_vars
  /\ [](\A t \in Turns :
          (/\ flags[t].stopped /\ flags[t].sid # 0
           /\ turn = t /\ status = "Idle" /\ chan = <<>>
           /\ hs.pc = "idle" /\ hn = "idle" /\ hl.pc = "idle"
           /\ sessionId = flags[t].sid)
            => currentSessionId = flags[t].sid)
  /\ [](saveTimer.armed => saveTimer.sid = currentSessionId)
  /\ [][\A id \in 1..Len(convs') :
          (id > Len(convs) \/ convs'[id] # convs[id])
            => (currentSessionId # 0 => convs'[id].sessionId = currentSessionId)]_vars

\* a turn was assigned a session id and then stopped; it has ended, and the
\* conversation is stored with that id
C22_Witness ==
  \E t \in Turns :
    /\ flags[t].stopped /\ flags[t].sid # 0
    /\ flags[t].how \in {"ack", "timeout"}
    /\ turn = t /\ status = "Idle" /\ chan = <<>>
    /\ sessionId = flags[t].sid
    /\ currentSessionId = flags[t].sid
    /\ currentConversationId # 0
    /\ currentConversationId <= Len(convs)
    /\ convs[currentConversationId].sessionId = flags[t].sid

\* C29: after oauth:logout has returned success no OAuth tokens are stored
\* until a later oauth:complete-login succeeds, also when a refresh was in
\* flight at the time of the logout. The store holds no pair at the start
\* and after a logout only, so: a step that takes the store from no pair to
\* a pair is the step of oauth:complete-login that saves the exchanged pair.
C29_NoTokensAfterLogout ==
  [][(oauthTokens = NoTokens /\ oauthTokens' # NoTokens)
       => (cl.pc = "exchanging" /\ cl'.pc = "idle" /\ cl'.result = "oauth")]_vars

(***************************************************************************)
(* The update controller: properties.                                      *)
(***************************************************************************)

\* C32: update checks are single-flight: checkForUpdates hands a check to
\* the library only when the library has neither a check nor a download in
\* progress.
C32_ChecksAreSingleFlight ==
  [][autoUpdater'.checks # autoUpdater.checks
       => (~autoUpdater.checking /\ ~autoUpdater.downloading)]_vars

\* C33: downloadUpdate hands a download to the library only when an update
\* is available and the library has no download in progress.
C33_DownloadsAreSingleFlight ==
  [][autoUpdater'.downloads # autoUpdater.downloads
       => (currentStatus.updateAvailable /\ ~autoUpdater.downloading)]_vars

\* C34: a delayed clear never removes what a later event has set: when a
\* clear runs and takes away an error or the lastCheckComplete flag, the
\* clear that the handler run which set it has scheduled for it is not
\* still to come at a later time.
C34_ClearsOnlyItsOwnFlags ==
  [][\A tm \in clearTimers \ clearTimers' :
       /\ (tm.error /\ currentStatus.error # 0)
            => ~\E own \in clearTimers :
                   own.error /\ own.by = currentStatus.error /\ own.at > uclk
       /\ currentStatus.lastCheckComplete
            => ~\E own \in clearTimers :
                   own.by = updHist.completeBy /\ own.at > uclk]_vars

\* C35: each autoUpdater event causes exactly one status update, one
\* notification if the window is there and none if it is null or
\* destroyed, and at most one delayed clear.
C35_OneUpdatePerEvent ==
  updHist.ev # "none"
    => /\ updHist.updates = 1
       /\ updHist.sent <= 1
       /\ updHist.scheduled <= 1

\* C36: updateAvailable is true exactly when updateInfo is not null;
\* readyToInstall is true only after 'update-downloaded'; quitAndInstall is
\* called only when readyToInstall is true.
C36_StatusIsConsistent ==
  /\ currentStatus.updateAvailable <=> currentStatus.updateInfo # 0
  /\ currentStatus.readyToInstall => autoUpdater.downloaded
  /\ autoUpdater.quit => currentStatus.readyToInstall

\* a check found nothing newer after an earlier one had found an update
\* that was then downloaded and installed
C36_Witness ==
  /\ autoUpdater.quit
  /\ currentStatus.readyToInstall
  /\ ~currentStatus.updateAvailable
  /\ autoUpdater.checks = 2

\* C31: oauth:complete-login exchanges a code only while a verifier is
\* held: without one it returns the 'No active OAuth flow' failure, sends
\* no request and changes no stored state. A token pair is written to the
\* config only by a complete-login in oauth mode whose exchange succeeded or
\* by a successful refresh, never by a complete-login in create-key mode.
C31_ExchangeOnlyInActiveFlow ==
  /\ [](cl.pc = "exchanging" => cl.verifier # 0)
  /\ [][(cl.pc = "idle" /\ cl' # cl)
          => IF currentPKCEVerifier = 0
               THEN /\ cl' = ClIdle("no-flow")
                    /\ UNCHANGED <<oauthTokens, currentPKCEVerifier, issued>>
               ELSE /\ cl'.pc = "exchanging"
                    /\ cl'.verifier = currentPKCEVerifier]_vars
  /\ [][(oauthTokens' # oauthTokens /\ oauthTokens' # NoTokens)
          => /\ issued' = issued + 1
             /\ oauthTokens'.access = issued'
             /\ \/ /\ cl.pc = "exchanging" /\ ~cl.createKey
                    /\ cl' = ClIdle("oauth")
                 \/ \E c \in Callers :
                      /\ gvat[c].pc = "refreshing"
                      /\ gvat'[c].pc = "idle"
                      /\ gvat'[c].result = oauthTokens'.access]_vars
  /\ [][(cl.createKey /\ cl' # cl) => oauthTokens' = oauthTokens]_vars

\* a complete-login was refused for want of a flow, after a flow had been
\* started and had ended
C31_Witness ==
  /\ cl = ClIdle("no-flow")
  /\ logins > 0
  /\ currentPKCEVerifier = 0

\* C30: getValidAccessToken with a stored pair starts a refresh exactly when
\* the stored expiry is less than the current time plus five minutes;
\* otherwise it returns the stored access token, makes no token request and
\* leaves the stored pair as it is.
C30_RefreshIffWithinFiveMinutes ==
  [][\A c \in Callers :
       (gvat[c].pc = "idle" /\ gvat'[c] # gvat[c] /\ oauthTokens # NoTokens)
         => /\ (gvat'[c].pc = "refreshing") <=> (oauthTokens.expires < now + fiveMinutes)
            /\ gvat'[c].pc = "refreshing" => gvat'[c].refresh = oauthTokens.refresh
            /\ gvat'[c].pc # "refreshing"
                 => /\ gvat'[c].pc = "idle"
                    /\ gvat'[c].result = oauthTokens.access
                    /\ ~gvat'[c].refreshed
                    /\ issued' = issued
                    /\ oauthTokens' = oauthTokens]_vars

\* a call has returned the stored access token of a pair that expires in
\* exactly five minutes, without a refresh
C30_Witness ==
  \E c \in Callers :
    /\ oauthTokens # NoTokens
    /\ oauthTokens.expires = now + fiveMinutes
    /\ gvat[c].pc = "idle"
    /\ ~gvat[c].refreshed
    /\ gvat[c].result = oauthTokens.access

\* p is a prefix of s
IsPrefix(p, s) == Len(p) <= Len(s) /\ SubSeq(s, 1, Len(p)) = p

\* C28: every store write pairs a message list with the id of its own
\* conversation. When the page takes a record's id as currentConversationId,
\* the record's messages are the beginning of the messages on screen; and
\* a write into an existing record keeps what the record held as the
\* beginning of its new message list, so that no record receives the
\* messages of another chat.
C28_WritesStayInOwnConversation ==
  [][/\ (currentConversationId' # currentConversationId
         /\ currentConversationId' \in 1..Len(convs'))
        => IsPrefix(convs'[currentConversationId'].msgs, messages')
     /\ \A id \in 1..Len(convs) :
          IsPrefix(convs[id].msgs, convs'[id].msgs)]_vars

\* the ids of the attachments of a list
AttIds(attachments) == {attachments[i].id : i \in 1..Len(attachments)}

\* C39: every blob preview URL is revoked exactly once, and not while its
\* attachment is in pendingAttachments: no URL is revoked twice, none of an
\* attachment in the list is revoked, a blob URL that is not revoked yet
\* belongs to an attachment that is in the list, is being sent or is being
\* prepared by processFiles while the page is mounted (so that its release
\* is still to come), and no message holds a blob URL.
C39_PreviewOwnership ==
  \A id \in DOMAIN previewUrls :
    /\ previewUrls[id].revoked <= 1
    /\ id \in AttIds(pendingAttachments) => previewUrls[id].revoked = 0
    /\ (previewUrls[id].kind = "blob" /\ previewUrls[id].revoked = 0)
         => \/ id \in AttIds(pendingAttachments)
            \/ hs.pc = "preparing" /\ id \in AttIds(hs.att)
            \/ mounted /\ fs.pc = "previewing" /\ id \in AttIds(fs.accepted)
    /\ previewUrls[id].copied => previewUrls[id].kind # "blob"

\* C38: loading a conversation is all or nothing for the page. The answer
\* to get is one record: its messages and its sessionId are what the
\* handler keeps; on success the backend session is reset with that
\* sessionId and then messages, currentConversationId and currentSessionId
\* are set together from that record; if get fails or the messages cannot
\* be parsed, the three are left as they are and the session is not reset.
C38_LoadIsAllOrNothing ==
  /\ [][(hl.pc # "getting" /\ hl'.pc = "getting" /\ hl'.id \in 1..Len(convs'))
          => /\ hl'.msgs = convs'[hl'.id].msgs
             /\ hl'.sid = convs'[hl'.id].sessionId]_vars
  /\ [][(hl.pc = "getting" /\ hl'.pc = "resetting")
          => /\ hl' = [hl EXCEPT !.pc = "resetting"]
             /\ status' = "Idle" /\ sessionId' = hl.sid
             /\ UNCHANGED <<messages, currentConversationId, currentSessionId>>]_vars
  /\ [][(hl.pc = "resetting" /\ hl'.pc = "idle")
          => /\ messages' = hl.msgs
             /\ currentConversationId' = hl.id
             /\ currentSessionId' = hl.sid]_vars
  /\ [][(hl.pc = "getting" /\ hl'.pc = "idle")
          => UNCHANGED <<messages, currentConversationId, currentSessionId,
                         status, sessionId, turn, calls>>]_vars

\* the stored conversation is on screen and the backend session is the one
\* of its record
C38_Witness ==
  /\ hl = HlIdle
  /\ currentConversationId = 1
  /\ messages = convs[1].msgs
  /\ currentSessionId = convs[1].sessionId
  /\ sessionId = convs[1].sessionId
  /\ sessionId # 0

\* C37: no conversation store write is issued with an empty message list:
\* the debounce timer never holds one, the write its callback makes and
\* the save before a new chat or a switch carry at least one message, and
\* no record of the store is left with an empty list.
C37_NoEmptyWrite ==
  /\ [](saveTimer.armed => saveTimer.msgs # <<>>)
  /\ [](\A id \in 1..Len(convs) : convs[id].msgs # <<>>)
  /\ [][(Len(chan') = Len(chan) + 1 /\ SubSeq(chan', 1, Len(chan)) = chan)
          => LET k == chan'[Len(chan')].k IN
               /\ k \in {"saveUpdated", "saveCreated"} => saveTimer.msgs # <<>>
               /\ k \in {"newSaved", "loadSaved"} => messages # <<>>]_vars

\* the timer has created a record and a save before a new chat or a
\* switch is in flight
C37_Witness ==
  /\ Len(convs) > 1
  /\ \E i \in 1..Len(chan) : chan[i].k \in {"newSaved", "loadSaved"}

\* C27: a failed conversation store write is reported to the page and the
\* message list is retained. In the step in which the page takes the answer
\* to a write that failed, the messages stay as they are (or grow), and
\* something the user can see changes: the message list, the loading
\* indicator or the error line.
C27_WriteFailureIsReported ==
  [][(/\ chan # <<>>
      /\ Head(chan).k \in {"saveUpdated", "saveCreated", "newSaved", "loadSaved"}
      /\ Head(chan).v = 0
      /\ chan' # chan
      /\ ~(Len(chan') > Len(chan) /\ SubSeq(chan', 1, Len(chan)) = chan))
       => (/\ Len(messages') >= Len(messages)
           /\ SubSeq(messages', 1, Len(messages)) = messages
           /\ <<messages, isLoading, attachmentError>>'
                # <<messages, isLoading, attachmentError>>)]_vars

\* C11: the changes of the message list that follow each other within the
\* debounce window are saved by one store write: after the list last changed
\* the effect issues at most one write.
C11_OneWritePerBurst == writes <= 1

\* C12: in one fresh chat the conversation record is created at most once.
C12_CreatedAtMostOnce == Len(convs) <= Len(<<StoredConversation>>) + 1

(***************************************************************************)
(* The conversation store: properties.                                     *)
(***************************************************************************)

\* C13: update has merge semantics. When the save of an update replaces a
\* record, each field the call supplied has the call's value, each field it
\* did not supply has the value stored before, and no other record changes;
\* after two updates of messages alone in a row the stored messages are the
\* second payload and the title is the one from before the first.
C13_UpdateMerges ==
  /\ [][(saving.kind = "update" /\ disk' # disk) =>
          /\ Len(disk') = Len(disk)
          /\ \A id \in 1..Len(disk) : id # saving.id => disk'[id] = disk[id]
          /\ disk'[saving.id].title =
               IF saving.title = 0 THEN disk[saving.id].title ELSE saving.title
          /\ disk'[saving.id].msgs =
               IF saving.msgs = 0 THEN disk[saving.id].msgs ELSE saving.msgs
          /\ disk'[saving.id].sessionId =
               IF saving.sid = 0 THEN disk[saving.id].sessionId ELSE saving.sid]_vars
  /\ [](run.n = 2 => (get(run.id).msgs = run.msgs /\ get(run.id).title = run.title))

\* two updates of messages alone were saved in a row
C13_Witness ==
  /\ run.n = 2
  /\ saving.last = "replaced"
  /\ get(run.id).title # 0

\* C14: saves are crash-safe. Every record get and list return is whole, and
\* a record changes only by being replaced with a copy written out in full:
\* an interrupted save leaves the records as they were.
C14_CrashSafe ==
  /\ [](\A id \in 1..Len(disk) : get(id).whole /\ get(id).msgs # 0)
  /\ [][/\ Len(disk') >= Len(disk)
        /\ \A id \in 1..Len(disk') :
             \/ id <= Len(disk) /\ disk'[id] = disk[id]
             \/ saving.done /\ saving.id = id /\ disk'[id] = saving.rec]_vars

\* a save of a record that exists was interrupted
C14_Witness ==
  /\ saving.last = "interrupted"
  /\ Len(disk) >= 1

(***************************************************************************)
(* Failed sends: properties.                                               *)
(***************************************************************************)

\* C23: a send that fails early is inert. The step in which the controller
\* refuses a request answers it with the failure result and changes nothing
\* else: the controller state, the terminal events and the history of the
\* turns are as before and no event is emitted. No streamed event ever
\* belongs to a request that was not accepted, and such a request never gets
\* a terminal event.
C23_EarlyFailureIsInert ==
  /\ [][(/\ hs.pc = "preparing" /\ hs'.pc = "awaiting"
          /\ chan' # <<>>
          /\ chan'[Len(chan')] = Msg("sendReply", hs.id, 0))
           => (/\ chan' = Append(chan, Msg("sendReply", hs.id, 0))
               /\ <<status, sessionId, turn, calls, nextSid>>'
                    = <<status, sessionId, turn, calls, nextSid>>
               /\ term' = term /\ flags' = flags)]_vars
  /\ [](\A i \in 1..Len(chan) :
          chan[i].k \in {"session", "delta", "complete", "error"}
            => calls[chan[i].t].st # "none")
  /\ [](\A t \in Turns :
          calls[t].st = "none" => (term[t] = 0 /\ uiTerm[t] = 0))

\* the controller has just refused a send: the answer is on its way to the
\* page, the controller is Idle and no call was opened for the request
C23_Witness ==
  /\ hs.pc = "awaiting"
  /\ chan = <<Msg("sendReply", hs.id, 0)>>
  /\ calls[hs.id].st = "none"
  /\ status = "Idle"

\* C24: a stop request issued when no turn is streaming is a no-op. The
\* step in which chat.stopMessage reaches a controller that is not Streaming
\* leaves the controller state, the session id, the message list, the
\* channel to the page and the terminal events as they were; and the
\* controller is Cancelling only for a live turn that was stopped while it
\* streamed.
C24_StopWhenNotStreamingIsNoOp ==
  /\ [][(ignoredStop' # ignoredStop) =>
          (/\ <<status, sessionId, turn, calls, nextSid>>'
                = <<status, sessionId, turn, calls, nextSid>>
           /\ messages' = messages
           /\ chan' = chan
           /\ term' = term /\ uiTerm' = uiTerm /\ flags' = flags
           /\ isLoading' = isLoading)]_vars
  /\ [](status = "Cancelling" =>
          (/\ turn # 0
           /\ term[turn] = 0
           /\ flags[turn].stopped
           /\ calls[turn].st = "aborting"))

\* a stop reached the controller after the turn had ended and before the
\* page had handled the terminal event
C24_Witness ==
  /\ ignoredStop = "yes"
  /\ status = "Idle"
  /\ turn # 0
  /\ term[turn] = 1
  /\ uiTerm[turn] = 0
  /\ isLoading

\* C25: the attachment size gate. No file larger than MAX_ATTACHMENT_BYTES
\* is ever among the pending attachments or among the attachments a send
\* takes along; whenever processFiles ends for a selection that held such a
\* file, the rejection message is set and names one of the files of that
\* selection that were too large; and the files of the selection that were
\* within the limit are then among the pending attachments.
C25_SizeGate ==
  /\ [](/\ \A i \in 1..Len(pendingAttachments) :
             pendingAttachments[i].size <= MAX_ATTACHMENT_BYTES
        /\ \A i \in 1..Len(hs.att) : hs.att[i].size <= MAX_ATTACHMENT_BYTES)
  /\ [][(fs'.pc = "idle" /\ (files' # files \/ fs.pc = "previewing")) =>
          (/\ fs'.over # {} => attachmentError' \in fs'.over
           /\ \A k \in fs'.within :
                \E i \in 1..Len(pendingAttachments') : pendingAttachments'[i].id = k
           /\ \A i \in 1..Len(pendingAttachments') :
                pendingAttachments'[i].id \notin fs'.over)]_vars

\* of one selection a file was rejected for its size and another one is on
\* its way to the backend with a send
C25_Witness ==
  /\ fs.pc = "idle"
  /\ fs.over # {}
  /\ hs.pc = "awaiting"
  /\ \E i \in 1..Len(hs.att) : hs.att[i].id \in fs.within

\* C26: no turn is submitted with empty text and no attachments. A send in
\* progress has a text that is not empty once trimmed, or attachments; a
\* user message is appended, the loading indicator is set and
\* chat.sendMessage is invoked for such a send only.
C26_NoEmptyTurn ==
  /\ [](hs.pc # "idle" => (hs.text \/ Len(hs.att) > 0))
  /\ [][(attempts' # attempts \/ (isLoading' /\ ~isLoading))
           => (/\ hs.pc = "idle" /\ hs'.pc = "preparing"
               /\ messages' = Append(messages, Message("user", hs'.id))
               /\ hs'.text \/ Len(hs'.att) > 0)]_vars
  /\ [][(/\ Len(chan') > Len(chan)
          /\ chan'[Len(chan')].k = "sendReply")
           => (/\ hs.pc = "preparing"
               /\ hs.text \/ Len(hs.att) > 0)]_vars

\* a turn with attachments and no text was submitted
C26_Witness ==
  /\ hs.pc = "awaiting"
  /\ ~hs.text
  /\ Len(hs.att) > 0
  /\ isLoading

SetDirDone(r) ==
  /\ r.h = "set-workspace-dir"
  /\ r.out = "result"
  /\ ~r.failed

\* C40: a config:set-workspace-dir call in which nothing failed and whose
\* path is empty or only whitespace returns success = false with an error
\* and leaves the stored directory as it was; with any other path it returns
\* success = true and the stored directory is exactly the trimmed path; and
\* a config:get-workspace-dir that follows such a call, no other call being
\* in progress, returns that trimmed path.
C40_StoresTrimmedPath ==
  /\ [](SetDirDone(cfgReply) =>
          IF trim(cfgReply.arg) = <<>>
            THEN /\ cfgReply.flag = "false"
                 /\ cfgReply.error
                 /\ swd.pc = "idle" => config.workspaceDir = cfgReply.was
            ELSE /\ cfgReply.flag = "true"
                 /\ swd.pc = "idle" =>
                      config.workspaceDir = PathName(trim(cfgReply.arg)))
  /\ [][(/\ SetDirDone(cfgReply)
         /\ cfgReply.flag = "true"
         /\ swd.pc = "idle"
         /\ cfgReply'.h = "get-workspace-dir")
          => cfgReply'.value = PathName(trim(cfgReply.arg))]_vars

\* a path typed with whitespace around it was stored trimmed over another
\* directory, and a path of whitespace alone was refused
C40_Witness ==
  /\ cfgReply.h = "set-workspace-dir"
  /\ cfgReply.out = "result"
  /\ ~cfgReply.failed
  /\ swd.pc = "idle"
  /\ \/ /\ cfgReply.arg = <<Space, 2>>
        /\ cfgReply.was = 1
        /\ cfgReply.flag = "true"
        /\ config.workspaceDir = 2
     \/ /\ cfgReply.arg = <<Space, Space>>
        /\ cfgReply.was = 2
        /\ cfgReply.flag = "false"
        /\ config.workspaceDir = 2

====
